---- MODULE Spec2Model ----
(***************************************************************************)
(* Circuit data model of arc-reactor-cad (src/circuit.py): components,     *)
(* pins, connections and the Circuit aggregate with its graph mutations,   *)
(* netlist derivation (update_from_data) and serialization (get_data).     *)
(*                                                                         *)
(* Representation.  Python strings are TLA+ strings.  A Python list is a   *)
(* sequence.  A dict whose iteration order matters is a sequence of        *)
(* <<key, value>> pairs with distinct keys; Component.pins is a function   *)
(* from pin name to pin record, iterated in the order of pin_configs.      *)
(* Objects without __eq__ (Component, Connection) compare by identity: a   *)
(* component carries an object number (oid) and a connection its uuid; a   *)
(* Connection is immutable after construction, so a reference to it is     *)
(* modelled by its record.  A new object or uuid4() is fresh: the n-th     *)
(* object allocated gets the number n.                                     *)
(***************************************************************************)
EXTENDS Integers, Sequences, FiniteSets, TLC

\* ------------------------------------------------------------------------
\* Bounds of the model
\* ------------------------------------------------------------------------
MaxComponents == 2
MaxConnections == 2
MaxAllocs == 3
MaxBuildAllocs == 4
MaxSimConnections == 3
MaxSimAllocs == 6
MaxChainLen == 6
MaxMoveAllocs == 3
MaxCatalogAllocs == 2
MaxPromptAllocs == 3
MaxStepComponents == 3
MaxStepConnections == 2
MaxStepAllocs == 6
MaxButtonAllocs == 7
MaxFileAllocs == 4

\* ------------------------------------------------------------------------
\* Constants of circuit.py
\* ------------------------------------------------------------------------
PIN_TYPE_DIGITAL == "digital"
PIN_TYPE_ANALOG == "analog"
PIN_TYPE_POWER == "power"
PIN_TYPE_GND == "gnd"
PIN_TYPE_COMPONENT == "component_terminal"

PIN_STATE_HIGH == 1
PIN_STATE_LOW == 0
\* None in the source; an integer outside {1, 0, -1} so that states compare
PIN_STATE_UNKNOWN == 2
PIN_STATE_CONFLICT == -1

\* Python's None where a string or an object is expected
None == "<None>"
\* a key that is absent from a dict of the payload
MISSING == "<missing>"
\* a payload value that is not a string (a number, a list, ...)
NONSTR == "<nonstr>"

\* ------------------------------------------------------------------------
\* Python built-ins used by the code
\* ------------------------------------------------------------------------
Range(s) == {s[i] : i \in DOMAIN s}

\* list without its element at index i (list.remove of the element found there)
RemoveAt(s, i) == SubSeq(s, 1, i - 1) \o SubSeq(s, i + 1, Len(s))

\* smallest element of a non-empty set of integers (first match of a scan)
Min(S) == CHOOSE m \in S : \A n \in S : m <= n

\* the characters a string of the model is made of are those of Latin-1
\* (code points 0 to 255); among them str.lower() changes exactly these
UpperChars ==
    "ABCDEFGHIJKLMNOPQRSTUVWXYZ"
    \o "ÀÁÂÃÄÅÆÇÈÉÊËÌÍÎÏÐÑÒÓÔÕÖØÙÚÛÜÝÞ"
LowerChars ==
    "abcdefghijklmnopqrstuvwxyz"
    \o "àáâãäåæçèéêëìíîïðñòóôõöøùúûüýþ"

\* the characters of Latin-1 for which str.isdigit() is true: the ten digits
\* and the superscripts two, three and one
DigitChars ==
    {"0", "1", "2", "3", "4", "5", "6", "7", "8", "9", "²", "³", "¹"}

\* the lowercase letter of each uppercase letter
LowerTable ==
    [ch \in {SubSeq(UpperChars, i, i) : i \in 1..Len(UpperChars)} |->
        LET k == CHOOSE i \in 1..Len(UpperChars) : SubSeq(UpperChars, i, i) = ch
        IN SubSeq(LowerChars, k, k)]

LowerChar(ch) == IF ch \in DOMAIN LowerTable THEN LowerTable[ch] ELSE ch

\* str.lower() that returns the string as it is
Lower_Unchanged(s) == s

\* str.lower()
RECURSIVE Lower(_)
Lower(s) == IF Len(s) = 0 THEN s
            ELSE LowerChar(SubSeq(s, 1, 1)) \o Lower(SubSeq(s, 2, Len(s)))

\* str.isdigit(): non-empty and every character a digit
IsDigit(s) == Len(s) > 0 /\ \A i \in 1..Len(s) : SubSeq(s, i, i) \in DigitChars

\* str(v) of a payload value: <<"int", n>> or <<"str", s>>
Str(v) == IF v[1] = "int" THEN ToString(v[2]) ELSE v[2]

\* str(uuid.uuid4()) as the n-th of the distinct strings it can yield
Uuid(n) == "uuid" \o ToString(n)

\* truthiness of an id argument: None and "" are falsy
Truthy(v) == v # None /\ v # ""

\* ------------------------------------------------------------------------
\* Pin-layout table, Component._create_pins: type -> <<name, pin type, offset>>
\* ------------------------------------------------------------------------
pin_configs ==
    [arduinouno |-> <<
        <<"D0", PIN_TYPE_DIGITAL, <<0, 20>> >>,
        <<"D1", PIN_TYPE_DIGITAL, <<0, 30>> >>,
        <<"D2", PIN_TYPE_DIGITAL, <<0, 40>> >>,
        <<"D3", PIN_TYPE_DIGITAL, <<0, 50>> >>,
        <<"D4", PIN_TYPE_DIGITAL, <<0, 60>> >>,
        <<"D5", PIN_TYPE_DIGITAL, <<0, 70>> >>,
        <<"D6", PIN_TYPE_DIGITAL, <<0, 80>> >>,
        <<"D7", PIN_TYPE_DIGITAL, <<0, 90>> >>,
        <<"D8", PIN_TYPE_DIGITAL, <<0, 100>> >>,
        <<"D9", PIN_TYPE_DIGITAL, <<0, 110>> >>,
        <<"D10", PIN_TYPE_DIGITAL, <<0, 120>> >>,
        <<"D11", PIN_TYPE_DIGITAL, <<0, 130>> >>,
        <<"D12", PIN_TYPE_DIGITAL, <<0, 140>> >>,
        <<"D13", PIN_TYPE_DIGITAL, <<0, 150>> >>,
        <<"A0", PIN_TYPE_ANALOG, <<100, 20>> >>,
        <<"A1", PIN_TYPE_ANALOG, <<100, 30>> >>,
        <<"A2", PIN_TYPE_ANALOG, <<100, 40>> >>,
        <<"A3", PIN_TYPE_ANALOG, <<100, 50>> >>,
        <<"A4", PIN_TYPE_ANALOG, <<100, 60>> >>,
        <<"A5", PIN_TYPE_ANALOG, <<100, 70>> >>,
        <<"5V", PIN_TYPE_POWER, <<100, 90>> >>,
        <<"3.3V", PIN_TYPE_POWER, <<100, 100>> >>,
        <<"GND", PIN_TYPE_GND, <<100, 110>> >>,
        <<"GND2", PIN_TYPE_GND, <<100, 120>> >>,
        <<"VIN", PIN_TYPE_POWER, <<100, 130>> >> >>,
     led |-> <<
        <<"anode", PIN_TYPE_COMPONENT, <<15, 0>> >>,
        <<"cathode", PIN_TYPE_COMPONENT, <<15, 30>> >> >>,
     button |-> <<
        <<"pin1", PIN_TYPE_COMPONENT, <<0, 20>> >>,
        <<"pin2", PIN_TYPE_COMPONENT, <<40, 20>> >> >>,
     resistor |-> <<
        <<"pin1", PIN_TYPE_COMPONENT, <<0, 10>> >>,
        <<"pin2", PIN_TYPE_COMPONENT, <<60, 10>> >> >>,
     potentiometer |-> <<
        <<"wiper", PIN_TYPE_COMPONENT, <<25, 0>> >>,
        <<"pin1", PIN_TYPE_COMPONENT, <<0, 20>> >>,
        <<"pin2", PIN_TYPE_COMPONENT, <<50, 20>> >> >>,
     servo |-> <<
        <<"signal", PIN_TYPE_COMPONENT, <<30, 0>> >>,
        <<"power", PIN_TYPE_POWER, <<15, 40>> >>,
        <<"ground", PIN_TYPE_GND, <<45, 40>> >> >>,
     motor |-> <<
        <<"plus", PIN_TYPE_COMPONENT, <<0, 25>> >>,
        <<"minus", PIN_TYPE_COMPONENT, <<50, 25>> >> >>,
     motor_driver |-> <<
        <<"in1", PIN_TYPE_COMPONENT, <<0, 10>> >>,
        <<"in2", PIN_TYPE_COMPONENT, <<0, 25>> >>,
        <<"in3", PIN_TYPE_COMPONENT, <<0, 40>> >>,
        <<"in4", PIN_TYPE_COMPONENT, <<0, 55>> >>,
        <<"ena", PIN_TYPE_COMPONENT, <<35, 0>> >>,
        <<"enb", PIN_TYPE_COMPONENT, <<55, 0>> >>,
        <<"out1", PIN_TYPE_COMPONENT, <<70, 10>> >>,
        <<"out2", PIN_TYPE_COMPONENT, <<70, 25>> >>,
        <<"out3", PIN_TYPE_COMPONENT, <<70, 40>> >>,
        <<"out4", PIN_TYPE_COMPONENT, <<70, 55>> >>,
        <<"vcc", PIN_TYPE_POWER, <<35, 70>> >>,
        <<"gnd", PIN_TYPE_GND, <<55, 70>> >> >>,
     ultrasonic |-> <<
        <<"trig", PIN_TYPE_COMPONENT, <<10, 0>> >>,
        <<"echo", PIN_TYPE_COMPONENT, <<30, 0>> >>,
        <<"vcc", PIN_TYPE_POWER, <<10, 30>> >>,
        <<"gnd", PIN_TYPE_GND, <<30, 30>> >> >>,
     bluetooth |-> <<
        <<"tx", PIN_TYPE_COMPONENT, <<0, 10>> >>,
        <<"rx", PIN_TYPE_COMPONENT, <<0, 25>> >>,
        <<"vcc", PIN_TYPE_POWER, <<50, 10>> >>,
        <<"gnd", PIN_TYPE_GND, <<50, 25>> >> >>,
     lcd |-> <<
        <<"rs", PIN_TYPE_COMPONENT, <<10, 0>> >>,
        <<"en", PIN_TYPE_COMPONENT, <<25, 0>> >>,
        <<"d4", PIN_TYPE_COMPONENT, <<40, 0>> >>,
        <<"d5", PIN_TYPE_COMPONENT, <<55, 0>> >>,
        <<"d6", PIN_TYPE_COMPONENT, <<70, 0>> >>,
        <<"d7", PIN_TYPE_COMPONENT, <<85, 0>> >>,
        <<"vcc", PIN_TYPE_POWER, <<10, 40>> >>,
        <<"gnd", PIN_TYPE_GND, <<25, 40>> >> >>,
     buzzer |-> <<
        <<"plus", PIN_TYPE_COMPONENT, <<15, 0>> >>,
        <<"minus", PIN_TYPE_COMPONENT, <<15, 30>> >> >>]

\* ------------------------------------------------------------------------
\* Pin and Connection
\* ------------------------------------------------------------------------
\* Pin.__init__
Pin(name, pin_type, component_id, position_offset) ==
    [id |-> "pin_" \o component_id \o "_" \o name,
     name |-> name,
     pin_type |-> pin_type,
     component_id |-> component_id,
     position_offset |-> position_offset,
     connected_to |-> << >>,
     state |-> PIN_STATE_UNKNOWN]

\* Pin.add_connection: append unless already referenced
Pin_add_connection(pin, connection) ==
    IF connection \in Range(pin.connected_to) THEN pin
    ELSE [pin EXCEPT !.connected_to = Append(@, connection)]

\* Pin.remove_connection: drop the reference when present
Pin_remove_connection(pin, connection) ==
    IF connection \in Range(pin.connected_to)
    THEN [pin EXCEPT !.connected_to =
            RemoveAt(@, Min({i \in DOMAIN @ : @[i] = connection}))]
    ELSE pin

\* Connection.__init__: uuid is the value of str(uuid.uuid4())
Connection(uuid, pin1_id, pin2_id) ==
    [id |-> uuid, pin1_id |-> pin1_id, pin2_id |-> pin2_id]

\* ------------------------------------------------------------------------
\* Component
\* ------------------------------------------------------------------------
\* Component._create_pins: the pins of the table for self.type, none otherwise
Component_create_pins(id, type) ==
    IF type \in DOMAIN pin_configs
    THEN LET cfg == pin_configs[type]
         IN [name \in {cfg[i][1] : i \in DOMAIN cfg} |->
                LET e == cfg[CHOOSE i \in DOMAIN cfg : cfg[i][1] = name]
                IN Pin(name, e[2], id, e[3])]
    ELSE [name \in {} |-> None]

\* Component.__init__ for a string type (type.lower() raises on anything
\* else, see TypeRaises); oid is the identity of the new object and uuid the
\* value uuid4() would give.  properties is
\* a function from keys to values and connections a sequence of
\* <<pin name, value>> pairs: a missing or null argument is the empty dict,
\* which is what `properties or {}` and `connections or {}` make of it.
\* Size, rect and colour are display data and left out.
Component_init(oid, uuid, id, type, position, properties, connections) ==
    LET self_id == IF Truthy(id) THEN id ELSE uuid
        self_type == Lower(type)
    IN [oid |-> oid,
        id |-> self_id,
        type |-> self_type,
        position |-> position,
        properties |-> properties,
        connections |-> [i \in DOMAIN connections |->
                            <<connections[i][1], Str(connections[i][2])>>],
        pins |-> Component_create_pins(self_id, self_type)]

\* type.lower() raises AttributeError when type is None or not a string
TypeRaises(type) == type \in {None, NONSTR}

\* ------------------------------------------------------------------------
\* Circuit: queries
\* ------------------------------------------------------------------------
\* Circuit.get_pin_by_id: <<index of the component, pin name>> of the first
\* pin with that id in component order, << >> when there is none
get_pin_by_id(comps, pin_id) ==
    LET hits == {i \in DOMAIN comps :
                    \E n \in DOMAIN comps[i].pins : comps[i].pins[n].id = pin_id}
    IN IF hits = {} THEN << >>
       ELSE LET i == Min(hits)
            IN <<i, CHOOSE n \in DOMAIN comps[i].pins :
                        comps[i].pins[n].id = pin_id>>

\* Circuit.get_component_by_id: index of the first component with that id, 0
\* when there is none
get_component_by_id(comps, component_id) ==
    LET hits == {i \in DOMAIN comps : comps[i].id = component_id}
    IN IF hits = {} THEN 0 ELSE Min(hits)

\* ------------------------------------------------------------------------
\* Circuit: mutations, as functions of the circuit
\*   [components, connections, selected_component, simulation_state, allocs]
\* giving the circuit after the call (and the returned value where a property
\* reads it).  allocs counts the objects allocated so far.  selected_component
\* holds the id of the referenced component (the only attribute read) or
\* None.  simulation_state is the snapshot of the last simulate_step, a
\* function from component id to [type, properties, pin_states], the empty
\* dict before the first step.
\* ------------------------------------------------------------------------
\* Circuit.__init__
Circuit_init ==
    [components |-> << >>, connections |-> << >>,
     selected_component |-> None, simulation_state |-> << >>, allocs |-> 0]

\* the identity of the next object, and the uuid uuid4() yields next
FreshOid(c) == c.allocs + 1
FreshUuid(c) == Uuid(c.allocs + 1)

\* Circuit.add_component
add_component(c, component_type, position) ==
    LET component == Component_init(FreshOid(c), FreshUuid(c),
                        component_type \o "_" \o ToString(Len(c.components)),
                        component_type, position, << >>, << >>)
    IN [c EXCEPT !.components = Append(@, component),
                 !.allocs = @ + 1]

\* remove_component without the cascade over circuit.connections
remove_component_KeepsConnections(c, component_id) ==
    LET idx == get_component_by_id(c.components, component_id)
    IN IF idx = 0 THEN c
       ELSE [c EXCEPT
              !.components = RemoveAt(@, idx),
              !.selected_component =
                  IF @ # None /\ @ = component_id THEN None ELSE @]

\* Circuit.remove_component
remove_component(c, component_id) ==
    LET idx == get_component_by_id(c.components, component_id)
    IN IF idx = 0 THEN c
       ELSE LET component == c.components[idx]
                component_pin_ids ==
                    {component.pins[n].id : n \in DOMAIN component.pins}
                keep(conn) == ~(conn.pin1_id \in component_pin_ids
                                \/ conn.pin2_id \in component_pin_ids)
            IN [c EXCEPT
                  !.connections = SelectSeq(@, keep),
                  !.components = RemoveAt(@, idx),
                  !.selected_component =
                      IF @ # None /\ @ = component_id THEN None ELSE @]

\* the scan of add_connection comparing the pair in the order given only
SamePair_OneOrder(conn, pin1_id, pin2_id) ==
    conn.pin1_id = pin1_id /\ conn.pin2_id = pin2_id

\* the two orderings of the pair, as add_connection's scan compares them
SamePair(conn, pin1_id, pin2_id) ==
    \/ conn.pin1_id = pin1_id /\ conn.pin2_id = pin2_id
    \/ conn.pin1_id = pin2_id /\ conn.pin2_id = pin1_id

\* Circuit.add_connection: [circuit, ret], ret the new Connection's id or None
add_connection(c, pin1_id, pin2_id) ==
    IF \E i \in DOMAIN c.connections : SamePair(c.connections[i], pin1_id, pin2_id)
    THEN [circuit |-> c, ret |-> None]
    ELSE LET connection == Connection(FreshUuid(c), pin1_id, pin2_id)
             pin1 == get_pin_by_id(c.components, pin1_id)
             pin2 == get_pin_by_id(c.components, pin2_id)
             comps1 == IF pin1 # << >> /\ pin2 # << >>
                       THEN [c.components EXCEPT ![pin1[1]].pins[pin1[2]] =
                                Pin_add_connection(@, connection)]
                       ELSE c.components
             comps2 == IF pin1 # << >> /\ pin2 # << >>
                       THEN [comps1 EXCEPT ![pin2[1]].pins[pin2[2]] =
                                Pin_add_connection(@, connection)]
                       ELSE comps1
         IN [circuit |-> [c EXCEPT !.connections = Append(@, connection),
                                   !.components = comps2,
                                   !.allocs = @ + 1],
             ret |-> connection.id]

\* remove_connection that cleans up the first endpoint only
remove_connection_FirstPinOnly(c, connection_id) ==
    LET hits == {i \in DOMAIN c.connections : c.connections[i].id = connection_id}
    IN IF hits = {} THEN c
       ELSE LET idx == Min(hits)
                connection == c.connections[idx]
                pin1 == get_pin_by_id(c.components, connection.pin1_id)
                comps1 == IF pin1 # << >>
                          THEN [c.components EXCEPT ![pin1[1]].pins[pin1[2]] =
                                   Pin_remove_connection(@, connection)]
                          ELSE c.components
            IN [c EXCEPT !.components = comps1,
                         !.connections = RemoveAt(@, idx)]

\* Circuit.remove_connection
remove_connection(c, connection_id) ==
    LET hits == {i \in DOMAIN c.connections : c.connections[i].id = connection_id}
    IN IF hits = {} THEN c
       ELSE LET idx == Min(hits)
                connection == c.connections[idx]
                pin1 == get_pin_by_id(c.components, connection.pin1_id)
                pin2 == get_pin_by_id(c.components, connection.pin2_id)
                comps1 == IF pin1 # << >>
                          THEN [c.components EXCEPT ![pin1[1]].pins[pin1[2]] =
                                   Pin_remove_connection(@, connection)]
                          ELSE c.components
                comps2 == IF pin2 # << >>
                          THEN [comps1 EXCEPT ![pin2[1]].pins[pin2[2]] =
                                   Pin_remove_connection(@, connection)]
                          ELSE comps1
            IN [c EXCEPT !.components = comps2,
                         !.connections = RemoveAt(@, idx)]

\* ------------------------------------------------------------------------
\* Netlist derivation
\* ------------------------------------------------------------------------
\* names of the pins of a component in dict order (the order of pin_configs)
PinOrder(component) ==
    IF component.type \in DOMAIN pin_configs
    THEN [i \in DOMAIN pin_configs[component.type] |->
            pin_configs[component.type][i][1]]
    ELSE << >>

\* the skip test with no "D" put before a label of digits
NormalizeLabel_NoPrefix(arduino, arduino_pin_name) ==
    IF /\ arduino_pin_name \notin DOMAIN arduino.pins
       /\ ~IsDigit(arduino_pin_name)
       /\ arduino_pin_name \notin {"GND", "5V", "3.3V", "VIN"}
    THEN None
    ELSE arduino_pin_name

\* lines 519-526: the label after the skip test and the digit normalisation,
\* None when the pair is skipped
NormalizeLabel(arduino, arduino_pin_name) ==
    IF /\ arduino_pin_name \notin DOMAIN arduino.pins
       /\ ~IsDigit(arduino_pin_name)
       /\ arduino_pin_name \notin {"GND", "5V", "3.3V", "VIN"}
    THEN None
    ELSE IF IsDigit(arduino_pin_name) THEN "D" \o arduino_pin_name
         ELSE arduino_pin_name

\* lines 532-540: the name of the Arduino pin a normalised label is wired to,
\* None when there is no such pin
ResolveArduinoPin(arduino, arduino_pin_name) ==
    IF arduino_pin_name = "GND" /\ "GND" \in DOMAIN arduino.pins THEN "GND"
    ELSE IF arduino_pin_name = "GND" /\ "GND2" \in DOMAIN arduino.pins THEN "GND2"
    ELSE IF arduino_pin_name \in DOMAIN arduino.pins THEN arduino_pin_name
    ELSE None

\* the loops of _create_connections_from_components from component i, declared
\* pair j on; arduino is the Arduino component found or synthesized
RECURSIVE CreateConnectionsFrom(_, _, _, _)
CreateConnectionsFrom(c, arduino, i, j) ==
    IF i > Len(c.components) THEN c
    ELSE LET component == c.components[i]
         IN IF component.id = arduino.id \/ j > Len(component.connections)
            THEN CreateConnectionsFrom(c, arduino, i + 1, 1)
            ELSE LET comp_pin_name == component.connections[j][1]
                     label == NormalizeLabel(arduino, component.connections[j][2])
                     arduino_pin == IF label = None THEN None
                                    ELSE ResolveArduinoPin(arduino, label)
                 IN IF label = None
                       \/ comp_pin_name \notin DOMAIN component.pins
                       \/ arduino_pin = None
                    THEN CreateConnectionsFrom(c, arduino, i, j + 1)
                    ELSE CreateConnectionsFrom(
                            add_connection(c, component.pins[comp_pin_name].id,
                                           arduino.pins[arduino_pin].id).circuit,
                            arduino, i, j + 1)

\* Circuit._create_connections_from_components
create_connections_from_components(c) ==
    LET found == {i \in DOMAIN c.components : c.components[i].type = "arduinouno"}
        c1 == IF found # {} THEN c
              ELSE [c EXCEPT
                      !.components = Append(@,
                          Component_init(FreshOid(c), FreshUuid(c), "arduino_main",
                                         "arduinouno", <<50, 50>>, << >>, << >>)),
                      !.allocs = @ + 1]
        arduino == IF found # {} THEN c.components[Min(found)]
                   ELSE c1.components[Len(c1.components)]
    IN CreateConnectionsFrom(c1, arduino, 1, 1)

\* the grid position of the i-th (0-based) entry, lines 480-486
GridPosition(i) == <<50 + (i % 3) * 100, 50 + (i \div 3) * 80>>

\* the arguments update_from_data passes for entry i (0-based): the
\* defaults of comp_data.get for absent keys
EntryId(entry, i) == IF entry.id = MISSING THEN "comp_" \o ToString(i) ELSE entry.id
EntryType(entry) == IF entry.type = MISSING THEN "unknown" ELSE entry.type

\* the loop of update_from_data over data["components"] from entry k (1-based)
\* on: [circuit, raised]; a Component whose construction raises ends the call
RECURSIVE BuildComponents(_, _, _)
BuildComponents(c, entries, k) ==
    IF k > Len(entries) THEN [circuit |-> c, raised |-> FALSE]
    ELSE IF TypeRaises(EntryType(entries[k]))
         THEN [circuit |-> c, raised |-> TRUE]
         ELSE BuildComponents(
                [c EXCEPT !.components = Append(@,
                            Component_init(FreshOid(c), FreshUuid(c),
                                EntryId(entries[k], k - 1),
                                EntryType(entries[k]), GridPosition(k - 1),
                                entries[k].properties, entries[k].connections)),
                          !.allocs = @ + 1],
                entries, k + 1)

\* update_from_data clearing the components but not the connections
update_from_data_KeepsConnections(c, data) ==
    LET cleared == [c EXCEPT !.components = << >>]
        built == IF data.has_components
                 THEN BuildComponents(cleared, data.components, 1)
                 ELSE [circuit |-> cleared, raised |-> FALSE]
    IN IF built.raised THEN built
       ELSE [circuit |-> create_connections_from_components(built.circuit),
             raised |-> FALSE]

\* Circuit.update_from_data: [circuit, raised].  data is
\* [has_components, components, has_other_keys] (whether the dict has the
\* key "components", its value, whether the dict has any other key); an
\* entry is [id, type, properties, connections] with MISSING for an absent
\* id or type
update_from_data(c, data) ==
    LET cleared == [c EXCEPT !.components = << >>, !.connections = << >>]
        built == IF data.has_components
                 THEN BuildComponents(cleared, data.components, 1)
                 ELSE [circuit |-> cleared, raised |-> FALSE]
    IN IF built.raised THEN built
       ELSE [circuit |-> create_connections_from_components(built.circuit),
             raised |-> FALSE]

\* ------------------------------------------------------------------------
\* Files
\* ------------------------------------------------------------------------
\* Circuit.load_from_file: [circuit, ret].  file is [exists, parses, data]:
\* open() raises for a missing file and json.load for text that is not JSON,
\* both before update_from_data is called; the except clause turns any
\* exception into the return value False
load_from_file(c, file) ==
    IF ~file.exists \/ ~file.parses
    THEN [circuit |-> c, ret |-> FALSE]
    ELSE LET r == update_from_data(c, file.data)
         IN [circuit |-> r.circuit, ret |-> ~r.raised]

\* ------------------------------------------------------------------------
\* Serialization
\* ------------------------------------------------------------------------
\* lines 553-561 for one pin: the Arduino pin names its connections yield, in
\* the order of connected_to (each is written to connections[pin_name])
ArduinoLabels(c, pin) ==
    LET other_pin_id(connection) ==
            IF connection.pin1_id = pin.id THEN connection.pin2_id
            ELSE connection.pin1_id
        facing(connection) ==
            LET other_pin == get_pin_by_id(c.components, other_pin_id(connection))
            IN /\ other_pin # << >>
               /\ LET other_component == get_component_by_id(c.components,
                          c.components[other_pin[1]].pins[other_pin[2]].component_id)
                  IN other_component # 0
                     /\ c.components[other_component].type = "arduinouno"
        hits == SelectSeq(pin.connected_to, facing)
    IN [i \in DOMAIN hits |->
          LET other_pin == get_pin_by_id(c.components, other_pin_id(hits[i]))
          IN c.components[other_pin[1]].pins[other_pin[2]].name]

\* the "connections" dict get_data builds for a component: one pair per pin
\* with an Arduino-facing connection, holding the last name written
ComponentConnections(c, component) ==
    LET names == SelectSeq(PinOrder(component),
                    LAMBDA n : ArduinoLabels(c, component.pins[n]) # << >>)
    IN [i \in DOMAIN names |->
          LET labels == ArduinoLabels(c, component.pins[names[i]])
          IN <<names[i], <<"str", labels[Len(labels)]>> >>]

\* Circuit.get_data; an empty "connections" dict is left out of the entry,
\* which reads back as the empty dict
get_data(c) ==
    [has_components |-> TRUE, has_other_keys |-> FALSE,
     components |-> [i \in DOMAIN c.components |->
        [id |-> c.components[i].id,
         type |-> c.components[i].type,
         properties |-> c.components[i].properties,
         connections |-> ComponentConnections(c, c.components[i])]]]

\* ------------------------------------------------------------------------
\* Geometry
\* ------------------------------------------------------------------------
\* Pin.get_absolute_position
Pin_get_absolute_position(pin, component_position) ==
    <<component_position[1] + pin.position_offset[1],
      component_position[2] + pin.position_offset[2]>>

\* move_to that drags the pin offsets along with the position
Component_move_to_ShiftsOffsets(component, position) ==
    [component EXCEPT
       !.position = position,
       !.pins = [n \in DOMAIN component.pins |->
                   [component.pins[n] EXCEPT !.position_offset =
                      <<@[1] + position[1] - component.position[1],
                        @[2] + position[2] - component.position[2]>>]]]

\* Component.move_to; the rect it also moves is display data
Component_move_to(component, position) ==
    [component EXCEPT !.position = position]

\* abs()
Abs(x) == IF x < 0 THEN -x ELSE x

\* Component.get_pin_at_position: the name of the first pin, in dict order,
\* within threshold of the point in both coordinates, None when there is none
Component_get_pin_at_position(component, point, threshold) ==
    LET order == PinOrder(component)
        near(k) ==
            LET pin == component.pins[order[k]]
                pin_pos == <<component.position[1] + pin.position_offset[1],
                             component.position[2] + pin.position_offset[2]>>
            IN /\ Abs(pin_pos[1] - point[1]) <= threshold
               /\ Abs(pin_pos[2] - point[2]) <= threshold
        hits == {k \in DOMAIN order : near(k)}
    IN IF hits = {} THEN None ELSE order[Min(hits)]

\* ------------------------------------------------------------------------
\* Simulation
\* ------------------------------------------------------------------------
\* largest element of a non-empty set of integers (the last write to a key)
Max(S) == CHOOSE m \in S : \A n \in S : m >= n

\* d[key] = value on a dict
SetItem(d, key, value) ==
    [k \in DOMAIN d \cup {key} |-> IF k = key THEN value ELSE d[k]]

\* d.get(key, default)
GetItem(d, key, default) == IF key \in DOMAIN d THEN d[key] ELSE default

\* the state of the pin at <<component index, pin name>>, and its assignment
StateOf(comps, loc) == comps[loc[1]].pins[loc[2]].state

SetState(comps, loc, value) ==
    [comps EXCEPT ![loc[1]].pins[loc[2]].state = value]

\* no reset: the pins keep the states the previous step left
ResetPins_Keeps(comps) == comps

\* lines 621-623: every pin back to UNKNOWN
ResetPins(comps) ==
    [i \in DOMAIN comps |->
        [comps[i] EXCEPT !.pins =
            [n \in DOMAIN comps[i].pins |->
                [comps[i].pins[n] EXCEPT !.state = PIN_STATE_UNKNOWN]]]]

\* the seeding with the two states exchanged
SeedPins_Swapped(comps) ==
    [i \in DOMAIN comps |->
        [comps[i] EXCEPT !.pins =
            [n \in DOMAIN comps[i].pins |->
                LET pin == comps[i].pins[n]
                IN IF pin.pin_type = PIN_TYPE_POWER
                   THEN [pin EXCEPT !.state = PIN_STATE_LOW]
                   ELSE IF pin.pin_type = PIN_TYPE_GND
                        THEN [pin EXCEPT !.state = PIN_STATE_HIGH]
                        ELSE pin]]]

\* lines 626-631: power pins HIGH, ground pins LOW
SeedPins(comps) ==
    [i \in DOMAIN comps |->
        [comps[i] EXCEPT !.pins =
            [n \in DOMAIN comps[i].pins |->
                LET pin == comps[i].pins[n]
                IN IF pin.pin_type = PIN_TYPE_POWER
                   THEN [pin EXCEPT !.state = PIN_STATE_HIGH]
                   ELSE IF pin.pin_type = PIN_TYPE_GND
                        THEN [pin EXCEPT !.state = PIN_STATE_LOW]
                        ELSE pin]]]

\* the body of the propagation loop with no branch for differing states
PropagateConnection_NoConflict(comps, connection) ==
    LET pin1 == get_pin_by_id(comps, connection.pin1_id)
        pin2 == get_pin_by_id(comps, connection.pin2_id)
    IN IF pin1 = << >> \/ pin2 = << >> THEN comps
       ELSE LET s1 == StateOf(comps, pin1)
                s2 == StateOf(comps, pin2)
            IN IF s1 # PIN_STATE_UNKNOWN /\ s2 = PIN_STATE_UNKNOWN
               THEN SetState(comps, pin2, s1)
               ELSE IF s2 # PIN_STATE_UNKNOWN /\ s1 = PIN_STATE_UNKNOWN
                    THEN SetState(comps, pin1, s2)
                    ELSE comps

\* the body of the propagation loop with a CONFLICT pin taking over the HIGH
\* or LOW of the pin at the other end
PropagateConnection_Heals(comps, connection) ==
    LET pin1 == get_pin_by_id(comps, connection.pin1_id)
        pin2 == get_pin_by_id(comps, connection.pin2_id)
    IN IF pin1 = << >> \/ pin2 = << >> THEN comps
       ELSE LET s1 == StateOf(comps, pin1)
                s2 == StateOf(comps, pin2)
                known == {PIN_STATE_HIGH, PIN_STATE_LOW}
            IN IF s1 # PIN_STATE_UNKNOWN /\ s2 = PIN_STATE_UNKNOWN
               THEN SetState(comps, pin2, s1)
               ELSE IF s2 # PIN_STATE_UNKNOWN /\ s1 = PIN_STATE_UNKNOWN
                    THEN SetState(comps, pin1, s2)
                    ELSE IF s1 = PIN_STATE_CONFLICT /\ s2 \in known
                         THEN SetState(comps, pin1, s2)
                         ELSE IF s2 = PIN_STATE_CONFLICT /\ s1 \in known
                              THEN SetState(comps, pin2, s1)
                              ELSE IF s1 # s2
                                   THEN SetState(SetState(comps, pin1,
                                            PIN_STATE_CONFLICT), pin2,
                                            PIN_STATE_CONFLICT)
                                   ELSE comps

\* the body of the propagation loop with a pin whose other end resolves to
\* nothing put back to UNKNOWN
PropagateConnection_DanglingResets(comps, connection) ==
    LET pin1 == get_pin_by_id(comps, connection.pin1_id)
        pin2 == get_pin_by_id(comps, connection.pin2_id)
    IN IF pin1 = << >> /\ pin2 = << >> THEN comps
       ELSE IF pin1 = << >> THEN SetState(comps, pin2, PIN_STATE_UNKNOWN)
       ELSE IF pin2 = << >> THEN SetState(comps, pin1, PIN_STATE_UNKNOWN)
       ELSE LET s1 == StateOf(comps, pin1)
                s2 == StateOf(comps, pin2)
            IN IF s1 # PIN_STATE_UNKNOWN /\ s2 = PIN_STATE_UNKNOWN
               THEN SetState(comps, pin2, s1)
               ELSE IF s2 # PIN_STATE_UNKNOWN /\ s1 = PIN_STATE_UNKNOWN
                    THEN SetState(comps, pin1, s2)
                    ELSE IF /\ s1 # PIN_STATE_UNKNOWN
                            /\ s2 # PIN_STATE_UNKNOWN
                            /\ s1 # s2
                         THEN SetState(SetState(comps, pin1, PIN_STATE_CONFLICT),
                                       pin2, PIN_STATE_CONFLICT)
                         ELSE comps

\* lines 637-651: the body of the propagation loop for one connection
PropagateConnection(comps, connection) ==
    LET pin1 == get_pin_by_id(comps, connection.pin1_id)
        pin2 == get_pin_by_id(comps, connection.pin2_id)
    IN IF pin1 = << >> \/ pin2 = << >> THEN comps
       ELSE LET s1 == StateOf(comps, pin1)
                s2 == StateOf(comps, pin2)
            IN IF s1 # PIN_STATE_UNKNOWN /\ s2 = PIN_STATE_UNKNOWN
               THEN SetState(comps, pin2, s1)
               ELSE IF s2 # PIN_STATE_UNKNOWN /\ s1 = PIN_STATE_UNKNOWN
                    THEN SetState(comps, pin1, s2)
                    ELSE IF /\ s1 # PIN_STATE_UNKNOWN
                            /\ s2 # PIN_STATE_UNKNOWN
                            /\ s1 # s2
                         THEN SetState(SetState(comps, pin1, PIN_STATE_CONFLICT),
                                       pin2, PIN_STATE_CONFLICT)
                         ELSE comps

\* the LED rule reading the anode only
LedState_AnodeOnly(anode, cathode) ==
    IF anode.state = PIN_STATE_HIGH THEN "on" ELSE "off"

\* lines 660-663: the state of an LED from its two pins
LedState(anode, cathode) ==
    IF anode.state = PIN_STATE_HIGH /\ cathode.state = PIN_STATE_LOW
    THEN "on" ELSE "off"

\* lines 655-684: the behaviour rule of the component at index i
ComponentBehaviour(comps, i) ==
    LET component == comps[i]
    IN IF component.type = "led"
       THEN IF {"anode", "cathode"} \subseteq DOMAIN component.pins
            THEN [comps EXCEPT ![i].properties =
                    SetItem(component.properties, "state", LedState(component.pins["anode"],
                                                 component.pins["cathode"]))]
            ELSE comps
       ELSE IF component.type = "button"
       THEN IF /\ GetItem(component.properties, "pressed", FALSE)
               /\ {"pin1", "pin2"} \subseteq DOMAIN component.pins
            THEN LET s1 == component.pins["pin1"].state
                     s2 == component.pins["pin2"].state
                 IN IF s1 # PIN_STATE_UNKNOWN /\ s2 = PIN_STATE_UNKNOWN
                    THEN SetState(comps, <<i, "pin2">>, s1)
                    ELSE IF s2 # PIN_STATE_UNKNOWN /\ s1 = PIN_STATE_UNKNOWN
                         THEN SetState(comps, <<i, "pin1">>, s2)
                         ELSE comps
            ELSE comps
       ELSE IF component.type = "motor"
       THEN IF {"plus", "minus"} \subseteq DOMAIN component.pins
            THEN [comps EXCEPT ![i].properties =
                    SetItem(component.properties, "state",
                        IF /\ component.pins["plus"].state = PIN_STATE_HIGH
                           /\ component.pins["minus"].state = PIN_STATE_LOW
                        THEN "running" ELSE "stopped")]
            ELSE comps
       ELSE comps

\* four passes instead of five
PropagationPasses_Four == 4

\* range(5), line 635
PropagationPasses == 5

\* the elementary steps with the component rules run before the passes
ApplyStep_ComponentsFirst(comps, conns, j) ==
    IF j <= Len(comps)
    THEN ComponentBehaviour(comps, j)
    ELSE PropagateConnection(comps, conns[((j - Len(comps) - 1) % Len(conns)) + 1])

\* the j-th elementary step of simulate_step after the seeding: the
\* connections in list order, once per pass, then the components in list order
ApplyStep(comps, conns, j) ==
    IF j <= PropagationPasses * Len(conns)
    THEN PropagateConnection(comps, conns[((j - 1) % Len(conns)) + 1])
    ELSE ComponentBehaviour(comps, j - PropagationPasses * Len(conns))

StepCount(c) == PropagationPasses * Len(c.connections) + Len(c.components)

\* always true; comparing a value with itself makes the evaluator compute it
\* in full at this point, as Python has computed a statement's result before
\* the next statement runs
Computed(value) == value = value

\* the components after the seeding and after each elementary step from j on
RECURSIVE SimulationTraceFrom(_, _, _, _)
SimulationTraceFrom(trace, conns, j, n) ==
    IF j > n THEN trace
    ELSE LET next == ApplyStep(trace[Len(trace)], conns, j)
         IN IF Computed(next)
            THEN SimulationTraceFrom(Append(trace, next), conns, j + 1, n)
            ELSE trace

SimulationTrace(c) ==
    LET seeded == SeedPins(ResetPins(c.components))
    IN IF Computed(seeded)
       THEN SimulationTraceFrom(<<seeded>>, c.connections, 1, StepCount(c))
       ELSE << >>

\* lines 689-699: the "components" dict of the snapshot, keyed by component
\* id (a later component with the same id overwrites the entry)
Snapshot(comps) ==
    [id \in {comps[i].id : i \in DOMAIN comps} |->
        LET comp == comps[Max({i \in DOMAIN comps : comps[i].id = id})]
        IN [type |-> comp.type,
            properties |-> comp.properties,
            pin_states |-> [n \in DOMAIN comp.pins |-> comp.pins[n].state]]]

\* Circuit.simulate_step
simulate_step(c) ==
    LET trace == SimulationTrace(c)
        final == trace[Len(trace)]
    IN [c EXCEPT !.components = final,
                 !.simulation_state = [components |-> Snapshot(final)]]

\* ------------------------------------------------------------------------
\* Inputs of the operations
\* ------------------------------------------------------------------------
\* type strings handed to add_component
ComponentTypeInputs == {"arduinouno", "LED"}

\* positions handed to add_component
PositionInputs == {<<50, 50>>}

\* pin names a wire is drawn to or from
WirePinNames == {"D13", "GND", "anode"}

\* payload entries of update_from_data
LedEntry ==
    [id |-> "led_0", type |-> "led", properties |-> [color |-> "red"],
     connections |-> << <<"anode", <<"int", 13>> >> >>]
ArduinoEntry ==
    [id |-> MISSING, type |-> "ArduinoUno", properties |-> << >>,
     connections |-> << >>]
NullTypeEntry ==
    [id |-> "led_0", type |-> None, properties |-> << >>, connections |-> << >>]
NumberTypeEntry ==
    [id |-> MISSING, type |-> NONSTR, properties |-> << >>, connections |-> << >>]
BareEntry ==
    [id |-> MISSING, type |-> MISSING, properties |-> << >>,
     connections |-> << <<"anode", <<"str", "D13">> >> >>]
BadLabelEntry ==
    [id |-> None, type |-> "LED", properties |-> << >>,
     connections |-> << <<"anode", <<"str", "Z9">> >>,
                        <<"cathode", <<"int", 99>> >>,
                        <<"nopin", <<"str", "5V">> >> >>]

\* payloads: {} without a "components" key, and {"components": [...]}
DataInputs ==
    {[has_components |-> FALSE, components |-> << >>,
     has_other_keys |-> FALSE]}
    \cup {[has_components |-> TRUE, components |-> q,
           has_other_keys |-> FALSE] :
            q \in {<< >>,
                   <<LedEntry>>,
                   <<BadLabelEntry>>,
                   <<NumberTypeEntry>>,
                   <<ArduinoEntry, ArduinoEntry>>,
                   <<ArduinoEntry, BareEntry>>,
                   <<LedEntry, NullTypeEntry>>}}

\* the board the simulation runs on: an Arduino (comp_0), an LED and a
\* button that is held down
SimLedEntry ==
    [id |-> "led_0", type |-> "led", properties |-> << >>, connections |-> << >>]
PressedButtonEntry ==
    [id |-> "btn_0", type |-> "button", properties |-> [pressed |-> TRUE],
     connections |-> << >>]
SimBoard ==
    [has_components |-> TRUE, has_other_keys |-> FALSE,
     components |-> <<ArduinoEntry, SimLedEntry, PressedButtonEntry>>]

\* the wires drawn on that board, <<pin1_id, pin2_id>>
SimWires ==
    {<<"pin_led_0_anode", "pin_comp_0_5V">>,
     <<"pin_comp_0_GND", "pin_led_0_cathode">>,
     <<"pin_led_0_anode", "pin_comp_0_D13">>,
     <<"pin_comp_0_D13", "pin_comp_0_5V">>,
     <<"pin_comp_0_5V", "pin_comp_0_GND">>,
     <<"pin_btn_0_pin1", "pin_comp_0_5V">>}

\* the pins of a motor driver wired one to the next into a chain that starts
\* at its power pin
ChainPins ==
    <<"vcc", "in1", "in2", "in3", "in4", "ena", "enb", "out1", "out2", "out3">>

\* the k-th wire of the chain; every other wire is drawn backwards
ChainWire(k) ==
    LET a == "pin_motor_driver_0_" \o ChainPins[k]
        b == "pin_motor_driver_0_" \o ChainPins[k + 1]
    IN IF k % 2 = 1 THEN <<a, b>> ELSE <<b, a>>

\* ------------------------------------------------------------------------
\* State
\* ------------------------------------------------------------------------
VARIABLES
    components,          \* Circuit.components
    connections,         \* Circuit.connections
    selected_component,  \* Circuit.selected_component
    simulation_state,    \* Circuit.simulation_state
    allocs,              \* number of objects allocated so far
    last,                \* the last call: operation, arguments, outcome
    loaded,              \* a fresh Circuit after update_from_data(get_data())
    simulation_active    \* AppState.simulation_active (main.py)

vars == <<components, connections, selected_component, simulation_state,
          allocs, last, loaded, simulation_active>>

\* the live Circuit object
Cur ==
    [components |-> components, connections |-> connections,
     selected_component |-> selected_component,
     simulation_state |-> simulation_state, allocs |-> allocs]

NoData == [has_components |-> FALSE, components |-> << >>,
     has_other_keys |-> FALSE]
NotLoaded == [valid |-> FALSE, circuit |-> Circuit_init]

\* a call on the live circuit: the operation, its arguments, what it returned
\* or whether it raised, and the sizes of the two lists when it was made
Call(op, args, data, ret, raised) ==
    [op |-> op, args |-> args, data |-> data, ret |-> ret, raised |-> raised,
     before |-> <<Len(components), Len(connections)>>]

\* the circuit after a call becomes the state
Becomes(c) ==
    /\ components' = c.components
    /\ connections' = c.connections
    /\ selected_component' = c.selected_component
    /\ simulation_state' = c.simulation_state
    /\ allocs' = c.allocs

Init ==
    /\ components = Circuit_init.components
    /\ connections = Circuit_init.connections
    /\ selected_component = Circuit_init.selected_component
    /\ simulation_state = Circuit_init.simulation_state
    /\ allocs = Circuit_init.allocs
    /\ last = [op |-> "init", args |-> << >>, data |-> NoData, ret |-> None,
               raised |-> FALSE, before |-> <<0, 0>>]
    /\ loaded = NotLoaded
    /\ simulation_active = FALSE

\* ids of the pins a wire can be drawn between, and one id of no pin
PinIdInputs ==
    UNION {{components[i].pins[n].id :
                n \in WirePinNames \cap DOMAIN components[i].pins} :
            i \in DOMAIN components}
    \cup {"pin_ghost_0_anode"}

\* ------------------------------------------------------------------------
\* Operations
\* ------------------------------------------------------------------------
\* budget bounds the number of objects allocated in a run
AddComponentWithin(budget) ==
    /\ Len(components) < MaxComponents
    /\ allocs < budget
    /\ \E t \in ComponentTypeInputs, pos \in PositionInputs :
          /\ Becomes(add_component(Cur, t, pos))
          /\ last' = Call("add_component", <<t>>, NoData, None, FALSE)
    /\ loaded' = NotLoaded
    /\ UNCHANGED simulation_active

AddComponent == AddComponentWithin(MaxAllocs)

RemoveComponent ==
    /\ \E id \in {components[i].id : i \in DOMAIN components} \cup {"ghost_0"} :
          /\ Becomes(remove_component(Cur, id))
          /\ last' = Call("remove_component", <<id>>, NoData, None, FALSE)
    /\ loaded' = NotLoaded
    /\ UNCHANGED simulation_active

AddConnectionWithin(budget) ==
    /\ Len(connections) < MaxConnections
    /\ allocs < budget
    /\ \E p1 \in PinIdInputs, p2 \in PinIdInputs :
          LET r == add_connection(Cur, p1, p2)
          IN /\ Becomes(r.circuit)
             /\ last' = Call("add_connection", <<p1, p2>>, NoData, r.ret, FALSE)
    /\ loaded' = NotLoaded
    /\ UNCHANGED simulation_active

AddConnection == AddConnectionWithin(MaxAllocs)

RemoveConnection ==
    /\ \E id \in {connections[i].id : i \in DOMAIN connections} \cup {Uuid(0)} :
          /\ Becomes(remove_connection(Cur, id))
          /\ last' = Call("remove_connection", <<id>>, NoData, None, FALSE)
    /\ loaded' = NotLoaded
    /\ UNCHANGED simulation_active

UpdateFromData ==
    /\ \E data \in DataInputs :
          LET r == update_from_data(Cur, data)
          IN /\ r.circuit.allocs <= MaxAllocs
             /\ Len(r.circuit.connections) <= MaxConnections
             /\ Len(r.circuit.components) <= MaxComponents
             /\ Becomes(r.circuit)
             /\ last' = Call("update_from_data", << >>, data, None, r.raised)
    /\ loaded' = NotLoaded
    /\ UNCHANGED simulation_active

\* c2 = Circuit(); c2.update_from_data(c1.get_data()), c1 the live circuit
RoundTrip ==
    /\ ~loaded.valid
    /\ loaded' = [valid |-> TRUE,
                  circuit |-> update_from_data(Circuit_init, get_data(Cur)).circuit]
    /\ UNCHANGED <<components, connections, selected_component,
                   simulation_state, allocs, last, simulation_active>>

Next ==
    \/ AddComponent
    \/ RemoveComponent
    \/ AddConnection
    \/ RemoveConnection
    \/ UpdateFromData

Spec == Init /\ [][Next]_vars

\* circuits built with add_component and add_connection only, and their
\* round trip through get_data and update_from_data
BuildAddComponent == AddComponentWithin(MaxBuildAllocs)

\* a wire can also be drawn to the id the D13 pin of an Arduino added second
\* will have, before or after that Arduino is added
BuildPinIdInputs == PinIdInputs \cup {"pin_arduinouno_1_D13"}

BuildAddConnection ==
    /\ Len(connections) < MaxConnections
    /\ allocs < MaxBuildAllocs
    /\ \E p1 \in BuildPinIdInputs, p2 \in BuildPinIdInputs :
          LET r == add_connection(Cur, p1, p2)
          IN /\ Becomes(r.circuit)
             /\ last' = Call("add_connection", <<p1, p2>>, NoData, r.ret, FALSE)
    /\ loaded' = NotLoaded
    /\ UNCHANGED simulation_active

NextBuild ==
    \/ BuildAddComponent
    \/ BuildAddConnection
    \/ RoundTrip

SpecBuild == Init /\ [][NextBuild]_vars

\* the simulation of a board: wires drawn and removed between steps
SimLoadBoard ==
    /\ components = << >>
    /\ connections = << >>
    /\ allocs = 0
    /\ LET r == update_from_data(Cur, SimBoard)
       IN /\ Becomes(r.circuit)
          /\ last' = Call("update_from_data", << >>, SimBoard, None, r.raised)
    /\ loaded' = NotLoaded
    /\ UNCHANGED simulation_active

SimAddConnection ==
    /\ components # << >>
    /\ Len(connections) < MaxSimConnections
    /\ allocs < MaxSimAllocs
    /\ \E w \in SimWires :
          LET r == add_connection(Cur, w[1], w[2])
          IN /\ Becomes(r.circuit)
             /\ last' = Call("add_connection", w, NoData, r.ret, FALSE)
    /\ loaded' = NotLoaded
    /\ UNCHANGED simulation_active

\* the indices of the components whose properties["state"] is "on"
LitComponents ==
    {i \in DOMAIN components :
        GetItem(components[i].properties, "state", None) = "on"}

\* a simulate_step call records the operation it follows and the components
\* that were on when it was made
SimulateStep ==
    /\ components # << >>
    /\ Becomes(simulate_step(Cur))
    /\ last' = Call("simulate_step", <<last.op, LitComponents>>, NoData, None,
                    FALSE)
    /\ loaded' = NotLoaded
    /\ UNCHANGED simulation_active

NextSim ==
    \/ SimLoadBoard
    \/ SimAddConnection
    \/ RemoveConnection
    \/ SimulateStep

SpecSim == Init /\ [][NextSim]_vars

\* chains of wires on one motor driver, drawn in any order, and their
\* simulation
ChainAddComponent ==
    /\ components = << >>
    /\ \E pos \in PositionInputs :
          /\ Becomes(add_component(Cur, "motor_driver", pos))
          /\ last' = Call("add_component", <<"motor_driver">>, NoData, None, FALSE)
    /\ loaded' = NotLoaded
    /\ UNCHANGED simulation_active

ChainAddConnection ==
    /\ components # << >>
    /\ \E k \in 1..MaxChainLen :
          LET r == add_connection(Cur, ChainWire(k)[1], ChainWire(k)[2])
          IN /\ r.ret # None
             /\ Becomes(r.circuit)
             /\ last' = Call("add_connection", ChainWire(k), NoData, r.ret, FALSE)
    /\ loaded' = NotLoaded
    /\ UNCHANGED simulation_active

ChainSimulateStep == SimulateStep

NextChain ==
    \/ ChainAddComponent
    \/ ChainAddConnection
    \/ ChainSimulateStep

SpecChain == Init /\ [][NextChain]_vars

\* circuits built with add_component and add_connection, stepped by
\* simulate_step, whose components are moved about
MovePositionInputs == {<<50, 50>>, <<-20, 130>>}

MoveAddComponent == AddComponentWithin(MaxMoveAllocs)

MoveAddConnection == AddConnectionWithin(MaxMoveAllocs)

MoveSimulateStep ==
    /\ last.op # "simulate_step"
    /\ SimulateStep

\* circuit.components[i].move_to(pos)
MoveTo ==
    /\ \E i \in DOMAIN components, pos \in MovePositionInputs :
          /\ components' =
                [components EXCEPT ![i] = Component_move_to(components[i], pos)]
          /\ last' = Call("move_to", <<i, pos>>, NoData, None, FALSE)
    /\ loaded' = NotLoaded
    /\ UNCHANGED simulation_active
    /\ UNCHANGED <<connections, selected_component, simulation_state, allocs>>

NextMove ==
    \/ MoveAddComponent
    \/ MoveAddConnection
    \/ MoveSimulateStep
    \/ MoveTo

SpecMove == Init /\ [][NextMove]_vars

\* components constructed from type strings in several letter cases and from
\* strings that name no catalog type
CatalogTypeInputs ==
    {"arduinouno", "led", "button", "resistor", "potentiometer", "servo",
     "motor", "motor_driver", "ultrasonic", "bluetooth", "lcd", "buzzer",
     "LED", "Led", "lEd", "ArduinoUno", "ARDUINOUNO", "Motor_Driver", "BUTTON",
     "Servo", "LCD", "BuZZer", "UltraSonic",
     "", "unknown", "diode", "arduino_uno", "arduino", "led ", "leds", "LED1",
     "motordriver"}

CatalogAddComponent ==
    /\ allocs < MaxCatalogAllocs
    /\ \E t \in CatalogTypeInputs, pos \in PositionInputs :
          /\ Becomes(add_component(Cur, t, pos))
          /\ last' = Call("add_component", <<t>>, NoData, None, FALSE)
    /\ loaded' = NotLoaded
    /\ UNCHANGED simulation_active

CatalogRemoveComponent ==
    /\ \E id \in {components[i].id : i \in DOMAIN components} :
          /\ Becomes(remove_component(Cur, id))
          /\ last' = Call("remove_component", <<id>>, NoData, None, FALSE)
    /\ loaded' = NotLoaded
    /\ UNCHANGED simulation_active

NextCatalog ==
    \/ CatalogAddComponent
    \/ CatalogRemoveComponent

SpecCatalog == Init /\ [][NextCatalog]_vars

\* netlists handed to update_from_data: an LED with two declared connections,
\* with or without an Arduino entry before it and a grounded button after it
NetPinNameInputs == {"anode", "nopin"}

NetLabelInputs ==
    {<<"int", 13>>, <<"str", "13">>, <<"str", "GND">>, <<"str", "5V">>,
     <<"str", "3.3V">>, <<"str", "VIN">>, <<"str", "A0">>, <<"str", "Z9">>,
     <<"int", 99>>, <<"str", "GND2">>, <<"str", "">>}

NetLedEntry(pin_name, label1, label2) ==
    [id |-> "led_0", type |-> "LED", properties |-> << >>,
     connections |-> << <<pin_name, label1>>, <<"cathode", label2>> >>]

GroundedButtonEntry ==
    [id |-> "btn_0", type |-> "button", properties |-> << >>,
     connections |-> << <<"pin1", <<"str", "GND">> >> >>]

NetlistInputs ==
    {[has_components |-> TRUE, components |-> before \o <<led>> \o after,
      has_other_keys |-> FALSE] :
        before \in {<< >>, <<ArduinoEntry>>},
        led \in {NetLedEntry(n, l1, l2) :
                    n \in NetPinNameInputs, l1 \in NetLabelInputs,
                    l2 \in NetLabelInputs},
        after \in {<< >>, <<GroundedButtonEntry>>}}

NetlistLoad ==
    /\ allocs = 0
    /\ \E data \in NetlistInputs :
          LET r == update_from_data(Cur, data)
          IN /\ Becomes(r.circuit)
             /\ last' = Call("update_from_data", << >>, data, None, r.raised)
    /\ loaded' = NotLoaded
    /\ UNCHANGED simulation_active

NetlistRemoveConnection == RemoveConnection

NextNetlist ==
    \/ NetlistLoad
    \/ NetlistRemoveConnection

SpecNetlist == Init /\ [][NextNetlist]_vars

\* ------------------------------------------------------------------------
\* The application's update function (main.py update_state) and the
\* generate-from-prompt action (ai_interface.py prompt_to_circuit).  What the
\* AI call yields is an input: no response (failed call), a response whose
\* content parses to text or a list, or one that parses to a dict, with or
\* without the keys "circuit_data" and "arduino_code".
\* ------------------------------------------------------------------------
AiResponse(kind, has_circuit_data, circuit_data, has_arduino_code, arduino_code) ==
    [kind |-> kind,
     has_circuit_data |-> has_circuit_data, circuit_data |-> circuit_data,
     has_arduino_code |-> has_arduino_code, arduino_code |-> arduino_code]

\* a circuit_data dict with a key but not the key "components", such as
\* {"connections": []}
OtherKeysData ==
    [has_components |-> FALSE, components |-> << >>, has_other_keys |-> TRUE]

PromptDataInputs == DataInputs \cup {OtherKeysData}

AiResponseInputs ==
    {AiResponse(kind, FALSE, NoData, FALSE, "") : kind \in {"none", "text", "list"}}
    \cup {AiResponse("dict", FALSE, NoData, has_code, "void setup() {}") :
            has_code \in BOOLEAN}
    \cup {AiResponse("dict", TRUE, data, TRUE, code) :
            data \in PromptDataInputs, code \in {"", "void setup() {}"}}
    \cup {AiResponse("dict", TRUE, data, FALSE, "") : data \in PromptDataInputs}

PromptInputs == {"", "blink an led"}

\* the pair prompt_to_circuit returns must not be (None, None)
NoCircuit == [ok |-> FALSE, circuit_data |-> NoData, arduino_code |-> ""]

\* bool(d) of a payload dict: true when the dict has a key
DictTruthy(data) == data.has_components \/ data.has_other_keys

\* AIInterface.prompt_to_circuit, from what the API call yielded
prompt_to_circuit(response) ==
    IF response.kind = "none" THEN NoCircuit
    ELSE IF response.kind # "dict" THEN NoCircuit
    ELSE LET circuit_data_truthy ==
                 response.has_circuit_data /\ DictTruthy(response.circuit_data)
             arduino_code_truthy ==
                 response.has_arduino_code /\ response.arduino_code # ""
         IN IF ~circuit_data_truthy \/ ~arduino_code_truthy THEN NoCircuit
            ELSE [ok |-> TRUE, circuit_data |-> response.circuit_data,
                  arduino_code |-> response.arduino_code]

\* lines 223-240 and 297-299 of update_state, the branch of the action
\* "generate_prompt": the circuit afterwards, the code stored in
\* app_state.generated_code (None when none is stored), and whether the
\* except clause of line 297 caught an exception
generate_prompt(c, prompt, response) ==
    IF prompt = ""
    THEN [circuit |-> c, generated_code |-> None, caught |-> FALSE, data |-> NoData]
    ELSE LET answer == prompt_to_circuit(response)
         IN IF answer.ok
            THEN LET r == update_from_data(c, answer.circuit_data)
                 IN [circuit |-> r.circuit,
                     generated_code |-> IF r.raised THEN None
                                        ELSE answer.arduino_code,
                     caught |-> r.raised,
                     data |-> answer.circuit_data]
            ELSE [circuit |-> c, generated_code |-> None, caught |-> FALSE,
                  data |-> NoData]

\* the actions update_state is called with; None is a frame with no action
UpdateStateActions ==
    {None, "generate_prompt", "analyze_image", "get_suggestions",
     "toggle_simulation", "save_code"}

\* lines 303-305: a simulate_step when the simulation is active
SimulateIfActive(c, active) == IF active THEN simulate_step(c) ELSE c

\* what a call of update_state leaves behind, from what the branch of its
\* action left (handled) and the simulation flag after it
UpdateStateResult(handled, active) ==
    [circuit |-> SimulateIfActive(handled.circuit, active),
     simulation_active |-> active,
     generated_code |-> handled.generated_code,
     caught |-> handled.caught,
     data |-> handled.data]

\* main.update_state: the branch of the action, then (lines 303-305) a
\* simulate_step when the simulation is active.  The branches of
\* "analyze_image", "get_suggestions" and "save_code" write the status
\* message, the suggestions and a file, none of which is part of the state
update_state(c, active, action, prompt, response) ==
    UpdateStateResult(
        IF action = "generate_prompt"
        THEN generate_prompt(c, prompt, response)
        ELSE [circuit |-> c, generated_code |-> None, caught |-> FALSE,
              data |-> NoData],
        IF action = "toggle_simulation" THEN ~active ELSE active)

PromptAddComponent == AddComponentWithin(MaxPromptAllocs)

PromptAddConnection == AddConnectionWithin(MaxPromptAllocs)

\* a call of update_state as a step: r is what update_state gives
UpdateStateStep(r, op, args) ==
    /\ r.circuit.allocs <= MaxPromptAllocs
    /\ Len(r.circuit.connections) <= MaxConnections
    /\ Len(r.circuit.components) <= MaxComponents
    /\ Becomes(r.circuit)
    /\ simulation_active' = r.simulation_active
    /\ last' = Call(op, args, r.data, r.generated_code, r.caught)
    /\ loaded' = NotLoaded

GeneratePrompt ==
    \E prompt \in PromptInputs, response \in AiResponseInputs :
        UpdateStateStep(update_state(Cur, simulation_active, "generate_prompt",
                                     prompt, response),
                        "generate_prompt", <<prompt, response.kind>>)

ToggleSimulation ==
    UpdateStateStep(update_state(Cur, simulation_active, "toggle_simulation",
                                 "", AiResponse("none", FALSE, NoData, FALSE, "")),
                    "toggle_simulation", << >>)

\* a frame of the main loop: update_state with no action or with an action
\* that leaves the circuit to the simulation
UpdateFrame ==
    \E action \in UpdateStateActions
                    \ {"generate_prompt", "toggle_simulation"} :
        UpdateStateStep(update_state(Cur, simulation_active, action, "",
                                     AiResponse("none", FALSE, NoData, FALSE, "")),
                        "update_state", << >>)

NextPrompt ==
    \/ PromptAddComponent
    \/ PromptAddConnection
    \/ GeneratePrompt
    \/ ToggleSimulation
    \/ UpdateFrame

SpecPrompt == Init /\ [][NextPrompt]_vars

\* circuits built and taken apart by hand, with wires to fixed pin ids, and
\* stepped by simulate_step
StepTypeInputs == {"arduinouno", "led"}

StepWires ==
    {<<"pin_led_1_anode", "pin_arduinouno_2_5V">>,
     <<"pin_arduinouno_2_GND", "pin_led_1_cathode">>}

StepAddComponent ==
    /\ Len(components) < MaxStepComponents
    /\ allocs < MaxStepAllocs
    /\ \E t \in StepTypeInputs, pos \in PositionInputs :
          /\ Becomes(add_component(Cur, t, pos))
          /\ last' = Call("add_component", <<t>>, NoData, None, FALSE)
    /\ loaded' = NotLoaded
    /\ UNCHANGED simulation_active

StepRemoveComponent ==
    /\ \E id \in {components[i].id : i \in DOMAIN components} :
          /\ Becomes(remove_component(Cur, id))
          /\ last' = Call("remove_component", <<id>>, NoData, None, FALSE)
    /\ loaded' = NotLoaded
    /\ UNCHANGED simulation_active

StepAddConnection ==
    /\ Len(connections) < MaxStepConnections
    /\ allocs < MaxStepAllocs
    /\ \E w \in StepWires :
          LET r == add_connection(Cur, w[1], w[2])
          IN /\ Becomes(r.circuit)
             /\ last' = Call("add_connection", w, NoData, r.ret, FALSE)
    /\ loaded' = NotLoaded
    /\ UNCHANGED simulation_active

StepSimulateStep ==
    /\ Becomes(simulate_step(Cur))
    /\ last' = Call("simulate_step", <<last.op, LitComponents>>, NoData, None,
                    FALSE)
    /\ loaded' = NotLoaded
    /\ UNCHANGED simulation_active

NextStep ==
    \/ StepAddComponent
    \/ StepRemoveComponent
    \/ StepAddConnection
    \/ StepSimulateStep

SpecStep == Init /\ [][NextStep]_vars

\* the simulation of a board with two buttons, one held down and one not
ReleasedButtonEntry ==
    [id |-> "btn_1", type |-> "button", properties |-> [pressed |-> FALSE],
     connections |-> << >>]
ButtonBoard ==
    [has_components |-> TRUE, has_other_keys |-> FALSE,
     components |-> <<ArduinoEntry, SimLedEntry, PressedButtonEntry,
                      ReleasedButtonEntry>>]

\* the wires drawn on that board, <<pin1_id, pin2_id>>
ButtonWires ==
    {<<"pin_btn_0_pin1", "pin_comp_0_5V">>,
     <<"pin_btn_0_pin2", "pin_led_0_anode">>,
     <<"pin_btn_1_pin1", "pin_comp_0_5V">>,
     <<"pin_comp_0_GND", "pin_btn_0_pin2">>,
     <<"pin_btn_1_pin2", "pin_led_0_cathode">>,
     <<"pin_comp_0_5V", "pin_comp_0_GND">>}

ButtonLoadBoard ==
    /\ components = << >>
    /\ connections = << >>
    /\ allocs = 0
    /\ LET r == update_from_data(Cur, ButtonBoard)
       IN /\ Becomes(r.circuit)
          /\ last' = Call("update_from_data", << >>, ButtonBoard, None,
                          r.raised)
    /\ loaded' = NotLoaded
    /\ UNCHANGED simulation_active

ButtonAddConnection ==
    /\ components # << >>
    /\ Len(connections) < MaxSimConnections
    /\ allocs < MaxButtonAllocs
    /\ \E w \in ButtonWires :
          LET r == add_connection(Cur, w[1], w[2])
          IN /\ Becomes(r.circuit)
             /\ last' = Call("add_connection", w, NoData, r.ret, FALSE)
    /\ loaded' = NotLoaded
    /\ UNCHANGED simulation_active

NextButton ==
    \/ ButtonLoadBoard
    \/ ButtonAddConnection
    \/ RemoveConnection
    \/ SimulateStep

SpecButton == Init /\ [][NextButton]_vars

\* the simulation of the board with wires whose pin ids belong to no
\* component mixed in with wires between live pins
DanglingWires ==
    {<<"pin_led_0_anode", "pin_comp_0_5V">>,
     <<"pin_ghost_0_anode", "pin_comp_0_5V">>,
     <<"pin_comp_0_GND", "pin_ghost_0_anode">>,
     <<"pin_ghost_0_anode", "pin_ghost_1_cathode">>,
     <<"pin_led_0_cathode", "pin_ghost_1_cathode">>}

DanglingAddConnection ==
    /\ components # << >>
    /\ Len(connections) < MaxSimConnections
    /\ allocs < MaxSimAllocs
    /\ \E w \in DanglingWires :
          LET r == add_connection(Cur, w[1], w[2])
          IN /\ Becomes(r.circuit)
             /\ last' = Call("add_connection", w, NoData, r.ret, FALSE)
    /\ loaded' = NotLoaded
    /\ UNCHANGED simulation_active

NextDangling ==
    \/ SimLoadBoard
    \/ DanglingAddConnection
    \/ RemoveConnection
    \/ SimulateStep

SpecDangling == Init /\ [][NextDangling]_vars

\* the files load_from_file is pointed at: a path with no file, a file that
\* is not JSON, and files holding each payload
FileInputs ==
    {[exists |-> FALSE, parses |-> FALSE, data |-> NoData],
     [exists |-> TRUE, parses |-> FALSE, data |-> NoData]}
    \cup {[exists |-> TRUE, parses |-> TRUE, data |-> d] : d \in DataInputs}

\* circuits drawn by hand and then replaced from a file
FileAddComponent == AddComponentWithin(MaxFileAllocs)

FileAddConnection == AddConnectionWithin(MaxFileAllocs)

LoadFromFile ==
    /\ \E file \in FileInputs :
          LET r == load_from_file(Cur, file)
          IN /\ r.circuit.allocs <= MaxFileAllocs
             /\ Len(r.circuit.connections) <= MaxConnections
             /\ Len(r.circuit.components) <= MaxComponents
             /\ Becomes(r.circuit)
             /\ last' = Call("load_from_file",
                             <<file.exists, file.parses>>, file.data, r.ret,
                             FALSE)
    /\ loaded' = NotLoaded
    /\ UNCHANGED simulation_active

NextFile ==
    \/ FileAddComponent
    \/ FileAddConnection
    \/ LoadFromFile

SpecFile == Init /\ [][NextFile]_vars

\* ------------------------------------------------------------------------
\* Vocabulary of the properties
\* ------------------------------------------------------------------------
PinIds(component) == {component.pins[n].id : n \in DOMAIN component.pins}

Touches(conn, component) ==
    conn.pin1_id \in PinIds(component) \/ conn.pin2_id \in PinIds(component)

Oids(comps) == {comps[i].oid : i \in DOMAIN comps}

\* the back-references held by the pins of a component
BackRefs(component) ==
    UNION {Range(component.pins[n].connected_to) : n \in DOMAIN component.pins}

Resolves(comps, pin_id) == get_pin_by_id(comps, pin_id) # << >>

AllResolve(comps, conns) ==
    \A k \in DOMAIN conns :
        Resolves(comps, conns[k].pin1_id) /\ Resolves(comps, conns[k].pin2_id)

ArduinoCount(comps) ==
    Cardinality({i \in DOMAIN comps : comps[i].type = "arduinouno"})

Types(c) == {c.components[i].type : i \in DOMAIN c.components}

\* <<component id, component pin name, Arduino pin name>> of the connections of
\* c.connections with an endpoint on an Arduino-type component
FacingOf(c, near_id, far_id) ==
    LET near == get_pin_by_id(c.components, near_id)
        far == get_pin_by_id(c.components, far_id)
    IN IF near # << >> /\ far # << >>
          /\ c.components[far[1]].type = "arduinouno"
       THEN {<<c.components[near[1]].id, near[2], far[2]>>}
       ELSE {}

ArduinoFacing(c) ==
    UNION {FacingOf(c, c.connections[k].pin1_id, c.connections[k].pin2_id)
           \cup FacingOf(c, c.connections[k].pin2_id, c.connections[k].pin1_id) :
           k \in DOMAIN c.connections}

\* a Connection joins two pins of Arduino-type components
JoinsTwoArduinoPins(c, conn) ==
    LET p1 == get_pin_by_id(c.components, conn.pin1_id)
        p2 == get_pin_by_id(c.components, conn.pin2_id)
    IN /\ p1 # << >> /\ p2 # << >>
       /\ c.components[p1[1]].type = "arduinouno"
       /\ c.components[p2[1]].type = "arduinouno"

\* ------------------------------------------------------------------------
\* C1.  For every pin of every component in the circuit, connected_to holds
\* exactly the Connections of circuit.connections that name the pin's id.
\* ------------------------------------------------------------------------
C1_BackReferencesExact ==
    \A i \in DOMAIN components : \A n \in DOMAIN components[i].pins :
        LET pin == components[i].pins[n]
        IN Range(pin.connected_to) =
             {conn \in Range(connections) :
                 conn.pin1_id = pin.id \/ conn.pin2_id = pin.id}

\* ------------------------------------------------------------------------
\* C2.  remove_component(id) of a component c of the circuit leaves no
\* Connection naming a pin of c and leaves c out of circuit.components; with
\* an id of no component it changes nothing.
\* ------------------------------------------------------------------------
C2_RemoveComponentRemoves ==
    [][last'.op = "remove_component" =>
         IF \E i \in DOMAIN components : components[i].id = last'.args[1]
         THEN \A i \in DOMAIN components :
                 components[i].id = last'.args[1] =>
                    /\ components[i].oid \notin Oids(components')
                    /\ \A k \in DOMAIN connections' :
                          ~Touches(connections'[k], components[i])
         ELSE UNCHANGED <<components, connections, selected_component>>]_vars

\* ------------------------------------------------------------------------
\* C3.  After remove_component(id) no pin of a remaining component still
\* references a Connection that touched the removed component.
\* ------------------------------------------------------------------------
C3_NoStaleBackReference ==
    [][(last'.op = "remove_component"
        /\ get_component_by_id(components, last'.args[1]) # 0) =>
          LET removed == components[get_component_by_id(components, last'.args[1])]
          IN \A j \in DOMAIN components' :
                \A conn \in BackRefs(components'[j]) : ~Touches(conn, removed)]_vars

\* ------------------------------------------------------------------------
\* C4.  Both pin ids of every Connection in circuit.connections resolve to a
\* pin of a component of the circuit.
\* ------------------------------------------------------------------------
C4_EveryConnectionResolves == AllResolve(components, connections)

\* C4 as amended: only add_connection called with a pin id that resolves to
\* no live pin makes a Connection dangle; every other call leaves every
\* Connection resolving when every Connection resolved before it.
C4_OnlyDanglingAddDangles ==
    [][(/\ AllResolve(components, connections)
        /\ ~(/\ last'.op = "add_connection"
             /\ \E a \in 1..2 : ~Resolves(components, last'.args[a]))) =>
          AllResolve(components', connections')]_vars

\* a removal has cascaded over the Connections of the removed component (a
\* back-reference outlives its Connection) and left none that dangles
C4_Witness ==
    /\ last.op = "remove_component"
    /\ last.before[2] > Len(connections)
    /\ AllResolve(components, connections)
    /\ \E i \in DOMAIN components :
          BackRefs(components[i]) \ Range(connections) # {}

\* ------------------------------------------------------------------------
\* C5.  circuit.connections never holds two Connections for one unordered pin
\* pair: add_connection of a pair that is present, in either order, returns
\* None and changes neither circuit.connections nor any pin's connected_to.
\* ------------------------------------------------------------------------
NoDuplicatePair ==
    \A i \in DOMAIN connections : \A j \in DOMAIN connections :
        i # j => {connections[i].pin1_id, connections[i].pin2_id}
                    # {connections[j].pin1_id, connections[j].pin2_id}

C5_AddConnectionIdempotent ==
    /\ []NoDuplicatePair
    /\ [][(/\ last'.op = "add_connection"
           /\ \E k \in DOMAIN connections :
                 {connections[k].pin1_id, connections[k].pin2_id}
                    = {last'.args[1], last'.args[2]}) =>
             /\ last'.ret = None
             /\ UNCHANGED <<components, connections>>]_vars

\* add_connection was refused for a pair wired in the opposite order
C5_Witness ==
    /\ last.op = "add_connection"
    /\ last.ret = None
    /\ \E k \in DOMAIN connections :
          /\ connections[k].pin1_id = last.args[2]
          /\ connections[k].pin2_id = last.args[1]
          /\ connections[k].pin1_id # connections[k].pin2_id

\* ------------------------------------------------------------------------
\* C6.  No two components of circuit.components have the same id, and so no
\* two pins of the circuit share a pin id.
\* ------------------------------------------------------------------------
C6_ComponentIdsUnique ==
    \A i \in DOMAIN components : \A j \in DOMAIN components :
        i # j =>
          /\ components[i].id # components[j].id
          /\ PinIds(components[i]) \cap PinIds(components[j]) = {}

\* ------------------------------------------------------------------------
\* C7.  A fresh circuit after update_from_data(c1.get_data()) has the
\* component types and the Arduino-facing connections of c1.
\* ------------------------------------------------------------------------
C7_RoundTripPreserves ==
    loaded.valid =>
       /\ Types(loaded.circuit) = Types(Cur)
       /\ ArduinoFacing(loaded.circuit) = ArduinoFacing(Cur)

\* what the round trip needs of c1: an Arduino, no Connection between two
\* Arduino pins, and no pin wired to Arduino pins of two different names
RoundTrips(c) ==
    /\ ArduinoCount(c.components) >= 1
    /\ \A k \in DOMAIN c.connections : ~JoinsTwoArduinoPins(c, c.connections[k])
    /\ \A t \in ArduinoFacing(c) : \A u \in ArduinoFacing(c) :
          (t[1] = u[1] /\ t[2] = u[2]) => t[3] = u[3]

\* C7 for the circuits that the losses the specification documents do not
\* touch (an Arduino-type component is present, no Connection joins two
\* Arduino pins, no component pin is wired to Arduino pins of two different
\* names): a fresh circuit after update_from_data(c1.get_data()) has the
\* component types and the Arduino-facing connections of c1.
C7_RoundTripOfWiredBoard ==
    RoundTrips(Cur) => C7_RoundTripPreserves

\* ------------------------------------------------------------------------
\* C8.  After update_from_data returns, the circuit has exactly one component
\* of type arduinouno.
\* ------------------------------------------------------------------------
C8_ExactlyOneArduino ==
    (last.op = "update_from_data" /\ ~last.raised) =>
        ArduinoCount(components) = 1

\* ------------------------------------------------------------------------
\* C9.  update_from_data({"components": []}) leaves one component, the
\* synthesized Arduino, and no connection, whatever the circuit held before.
\* ------------------------------------------------------------------------
C9_EmptyPayloadResets ==
    (last.op = "update_from_data"
     /\ last.data = [has_components |-> TRUE, components |-> << >>,
                    has_other_keys |-> FALSE]) =>
        /\ ~last.raised
        /\ Len(components) = 1
        /\ components[1].id = "arduino_main"
        /\ components[1].type = "arduinouno"
        /\ BackRefs(components[1]) = {}
        /\ connections = << >>

\* the empty payload was applied to a circuit with components and connections
C9_Witness ==
    /\ last.op = "update_from_data"
    /\ last.data = [has_components |-> TRUE, components |-> << >>,
                    has_other_keys |-> FALSE]
    /\ last.before[1] > 0
    /\ last.before[2] > 0

\* ------------------------------------------------------------------------
\* C10.  update_from_data never raises on partially malformed input.
\* ------------------------------------------------------------------------
C10_UpdateNeverRaises == last.op = "update_from_data" => ~last.raised

\* ------------------------------------------------------------------------
\* Vocabulary of the simulation properties.  A pin is named by its place
\* <<component index, pin name>>; a wire is a Connection of the circuit whose
\* two pin ids resolve, taken as the pair of the places they resolve to.
\* ------------------------------------------------------------------------
Place(c, pin_id) == get_pin_by_id(c.components, pin_id)

Places(c) ==
    UNION {{<<i, n>> : n \in DOMAIN c.components[i].pins} :
           i \in DOMAIN c.components}

PlacesOfType(c, pin_type) ==
    {loc \in Places(c) : c.components[loc[1]].pins[loc[2]].pin_type = pin_type}

Wires(c) ==
    {<<Place(c, conn.pin1_id), Place(c, conn.pin2_id)>> :
        conn \in {x \in Range(c.connections) :
                    Place(c, x.pin1_id) # << >> /\ Place(c, x.pin2_id) # << >>}}

\* the places at most k wires away from a place of S
RECURSIVE Within(_, _, _)
Within(c, S, k) ==
    IF k = 0 THEN S
    ELSE LET near == Within(c, S, k - 1)
         IN near \cup {w[2] : w \in {x \in Wires(c) : x[1] \in near}}
                 \cup {w[1] : w \in {x \in Wires(c) : x[2] \in near}}

\* the places joined to a place of S by a chain of wires of any length
Joined(c, S) == Within(c, S, Len(c.connections))

PowerPlaces(c) == PlacesOfType(c, PIN_TYPE_POWER)
GroundPlaces(c) == PlacesOfType(c, PIN_TYPE_GND)

\* ------------------------------------------------------------------------
\* C11.  After simulate_step, the two pins of every wire that joins a pin of
\* type power directly to a pin of type ground are both CONFLICT.
\* ------------------------------------------------------------------------
ShortCircuits(c) ==
    {w \in Wires(c) :
        \/ w[1] \in PowerPlaces(c) /\ w[2] \in GroundPlaces(c)
        \/ w[1] \in GroundPlaces(c) /\ w[2] \in PowerPlaces(c)}

C11_PowerToGroundConflicts ==
    last.op = "simulate_step" =>
        \A w \in ShortCircuits(Cur) :
            /\ StateOf(components, w[1]) = PIN_STATE_CONFLICT
            /\ StateOf(components, w[2]) = PIN_STATE_CONFLICT

\* a step has run over a power pin wired to a ground pin, the wire coming
\* after another wire of the power pin in the list
C11_Witness ==
    /\ last.op = "simulate_step"
    /\ ShortCircuits(Cur) # {}
    /\ Len(connections) >= 2
    /\ <<Place(Cur, connections[1].pin1_id),
         Place(Cur, connections[1].pin2_id)>> \notin ShortCircuits(Cur)

\* ------------------------------------------------------------------------
\* C12.  An LED whose anode is wired to a power pin and whose cathode is
\* wired to a ground pin, each directly or through one intermediate pin, is
\* "on" after simulate_step; once a wire is removed so that it is no longer
\* wired that way, the next simulate_step leaves it "off".
\* ------------------------------------------------------------------------
LedWired(c, i) ==
    /\ c.components[i].type = "led"
    /\ <<i, "anode">> \in Within(c, PowerPlaces(c), 2)
    /\ <<i, "cathode">> \in Within(c, GroundPlaces(c), 2)

LedStateOf(i) == GetItem(components[i].properties, "state", None)

C12_LedFollowsWires ==
    last.op = "simulate_step" =>
        \A i \in DOMAIN components :
            /\ LedWired(Cur, i) => LedStateOf(i) = "on"
            /\ (/\ components[i].type = "led"
                /\ last.args[1] = "remove_connection"
                /\ i \in last.args[2]
                /\ ~LedWired(Cur, i)) => LedStateOf(i) = "off"

\* the anode is joined to no ground pin and the cathode to no power pin
LedUnshorted(c, i) ==
    /\ <<i, "anode">> \notin Joined(c, GroundPlaces(c))
    /\ <<i, "cathode">> \notin Joined(c, PowerPlaces(c))

\* the anode is joined to no power pin or the cathode to no ground pin
LedCutOff(c, i) ==
    \/ <<i, "anode">> \notin Joined(c, PowerPlaces(c))
    \/ <<i, "cathode">> \notin Joined(c, GroundPlaces(c))

\* C12 as amended: the LED is "on" after simulate_step when, besides being
\* wired as C12 says, its anode is joined by no chain of wires to a ground pin
\* and its cathode by none to a power pin; an LED that was on is "off" after
\* the simulate_step that follows the removal of a wire once its anode is
\* joined to no power pin or its cathode to no ground pin.
C12_LedFollowsUnshortedWires ==
    last.op = "simulate_step" =>
        \A i \in DOMAIN components :
            /\ (LedWired(Cur, i) /\ LedUnshorted(Cur, i)) =>
                  LedStateOf(i) = "on"
            /\ (/\ components[i].type = "led"
                /\ last.args[1] = "remove_connection"
                /\ i \in last.args[2]
                /\ LedCutOff(Cur, i)) => LedStateOf(i) = "off"

\* an LED lit through an intermediate pin has gone off in the step after the
\* removal of its cathode wire
C12_Witness ==
    /\ last.op = "simulate_step"
    /\ last.args[1] = "remove_connection"
    /\ \E i \in last.args[2] :
          /\ LedStateOf(i) = "off"
          /\ <<i, "anode">> \in Within(Cur, PowerPlaces(Cur), 2)
                                  \ Within(Cur, PowerPlaces(Cur), 1)
          /\ <<i, "cathode">> \notin Joined(Cur, GroundPlaces(Cur))

\* ------------------------------------------------------------------------
\* C13.  After simulate_step every pin at most 5 wires away from a power or
\* ground pin has a state other than UNKNOWN, whatever the order of
\* circuit.connections; a pin farther away may be left UNKNOWN.
\* ------------------------------------------------------------------------
Sources(c) == PowerPlaces(c) \cup GroundPlaces(c)

C13_FivePassesReachFiveWires ==
    last.op = "simulate_step" =>
        \A loc \in Within(Cur, Sources(Cur), 5) :
            StateOf(components, loc) # PIN_STATE_UNKNOWN

\* a step has left a pin 6 wires from the nearest source UNKNOWN and given a
\* state to a pin 5 wires from it
C13_Witness ==
    /\ last.op = "simulate_step"
    /\ \E loc \in Within(Cur, Sources(Cur), 6) \ Within(Cur, Sources(Cur), 5) :
          StateOf(components, loc) = PIN_STATE_UNKNOWN
    /\ \E loc \in Within(Cur, Sources(Cur), 5) \ Within(Cur, Sources(Cur), 4) :
          StateOf(components, loc) \in {PIN_STATE_HIGH, PIN_STATE_LOW}

\* ------------------------------------------------------------------------
\* C20.  Within one simulate_step a pin that has become CONFLICT is CONFLICT
\* after every later elementary step (the handling of a connection in a
\* pass, the behaviour rule of a component) up to the end of the call.
\* ------------------------------------------------------------------------
ConflictSticks(trace) ==
    \A j \in 1..(Len(trace) - 1) : \A loc \in Places([components |-> trace[j]]) :
        StateOf(trace[j], loc) = PIN_STATE_CONFLICT =>
            StateOf(trace[j + 1], loc) = PIN_STATE_CONFLICT

C20_ConflictIsSticky ==
    [][last'.op = "simulate_step" =>
          /\ components' = SimulationTrace(Cur)[StepCount(Cur) + 1]
          /\ ConflictSticks(SimulationTrace(Cur))]_vars

\* a step has ended with a pin that was CONFLICT while a wire to a HIGH pin
\* was handled again, and with the CONFLICT of the button's pin1 copied onto
\* its pin2 by the button rule
C20_Witness ==
    /\ last.op = "simulate_step"
    /\ \E i \in DOMAIN components :
          /\ components[i].type = "button"
          /\ components[i].pins["pin1"].state = PIN_STATE_CONFLICT
          /\ components[i].pins["pin2"].state = PIN_STATE_CONFLICT
    /\ \E w \in Wires(Cur) \ ShortCircuits(Cur) :
          w[2] \in PowerPlaces(Cur) /\ StateOf(components, w[2]) = PIN_STATE_CONFLICT

\* ------------------------------------------------------------------------
\* C14.  move_to with new position = old position + (dx, dy) shifts the
\* absolute position of every pin of the component by exactly (dx, dy); the
\* absolute position is position + position_offset, which is also where
\* get_pin_at_position finds a pin; no pin (offset, state, back-references)
\* and no connection changes, and no other component moves.
\* ------------------------------------------------------------------------
AbsolutePositions(component) ==
    [n \in DOMAIN component.pins |->
        Pin_get_absolute_position(component.pins[n], component.position)]

C14_MoveShiftsPins ==
    [][last'.op = "move_to" =>
          LET i == last'.args[1]
              dx == last'.args[2][1] - components[i].position[1]
              dy == last'.args[2][2] - components[i].position[2]
              before == AbsolutePositions(components[i])
              after == AbsolutePositions(components'[i])
          IN /\ \A n \in DOMAIN components[i].pins :
                   /\ after[n] = <<before[n][1] + dx, before[n][2] + dy>>
                   /\ after[n] =
                        <<components'[i].position[1]
                             + components'[i].pins[n].position_offset[1],
                          components'[i].position[2]
                             + components'[i].pins[n].position_offset[2]>>
                   /\ Component_get_pin_at_position(components'[i], after[n], 0)
                        # None
             /\ components'[i].pins = components[i].pins
             /\ connections' = connections
             /\ \A k \in DOMAIN components : k # i => components'[k] = components[k]
             /\ DOMAIN components' = DOMAIN components]_vars

\* a wired component whose pins have states from a simulate_step has been
\* moved by a step with a negative dx and a positive dy
C14_Witness ==
    /\ last.op = "move_to"
    /\ LET i == last.args[1]
       IN /\ components[i].position = <<-20, 130>>
          /\ \E n \in DOMAIN components[i].pins :
                /\ components[i].pins[n].connected_to # << >>
                /\ components[i].pins[n].state # PIN_STATE_UNKNOWN

\* ------------------------------------------------------------------------
\* C15.  A component constructed with a type string that names a catalog
\* type in any letter case has exactly the pin names and pin types of the
\* table row of that type, and its type is the row's name; with any other
\* type string it has no pin; the construction does not raise.
\* ------------------------------------------------------------------------
\* position of a character in a string of distinct characters, 0 if absent
IndexIn(chars, ch) ==
    LET at == {i \in 1..Len(chars) : SubSeq(chars, i, i) = ch}
    IN IF at = {} THEN 0 ELSE CHOOSE i \in at : TRUE

\* s and t are the same string up to the case of their letters
SameIgnoringCase(s, t) ==
    /\ Len(s) = Len(t)
    /\ \A i \in 1..Len(s) :
          LET a == SubSeq(s, i, i)
              b == SubSeq(t, i, i)
          IN \/ a = b
             \/ IndexIn(UpperChars, a) > 0 /\ IndexIn(UpperChars, a) = IndexIn(LowerChars, b)
             \/ IndexIn(LowerChars, a) > 0 /\ IndexIn(LowerChars, a) = IndexIn(UpperChars, b)

CatalogTypesNamedBy(s) == {T \in DOMAIN pin_configs : SameIgnoringCase(s, T)}

C15_CatalogPins ==
    last.op = "add_component" =>
        LET component == components[Len(components)]
            named == CatalogTypesNamedBy(last.args[1])
        IN /\ ~last.raised
           /\ Len(components) = last.before[1] + 1
           /\ \A T \in named :
                 /\ component.type = T
                 /\ {<<n, component.pins[n].name, component.pins[n].pin_type>> :
                        n \in DOMAIN component.pins}
                      = {<<row[1], row[1], row[2]>> : row \in Range(pin_configs[T])}
           /\ named = {} => DOMAIN component.pins = {}

\* a component has been built from a mixed-case name of a catalog type after
\* one built from a string that names none
C15_Witness ==
    /\ last.op = "add_component"
    /\ last.args[1] = "Motor_Driver"
    /\ Len(components) = 2
    /\ Cardinality(DOMAIN components[2].pins) = 12
    /\ components[1].type = "led "
    /\ DOMAIN components[1].pins = {}
    /\ Cardinality(DOMAIN pin_configs) = 12

\* ------------------------------------------------------------------------
\* C17.  add_connection for a pair that has no Connection yet appends the new
\* Connection and returns it; when exactly one of the two pin ids resolves,
\* the Connection is added to connected_to of the pin that resolves; when
\* neither resolves, no pin changes.
\* ------------------------------------------------------------------------
C17_OneSidedBackReference ==
    [][(last'.op = "add_connection" /\ last'.ret # None) =>
          LET connection == connections'[Len(connections')]
              pin1 == get_pin_by_id(components, last'.args[1])
              pin2 == get_pin_by_id(components, last'.args[2])
              resolving == {p \in {pin1, pin2} : p # << >>}
          IN /\ connections' = Append(connections, connection)
             /\ connection.id = last'.ret
             /\ <<connection.pin1_id, connection.pin2_id>> = last'.args
             /\ (pin1 = << >>) # (pin2 = << >>) =>
                   \A p \in resolving :
                       connection \in
                           Range(components'[p[1]].pins[p[2]].connected_to)
             /\ resolving = {} => components' = components]_vars

\* ------------------------------------------------------------------------
\* Vocabulary of the netlist properties.  The Arduino is the first component
\* of type arduinouno; a declared pair is named <<component index, index of
\* the pair in component.connections>>, in the order the loops visit them;
\* the components with the Arduino's id are skipped by the loops.
\* ------------------------------------------------------------------------
TheArduino == components[Min({i \in DOMAIN components :
                                components[i].type = "arduinouno"})]

DeclaredPairs ==
    {<<i, j>> \in (DOMAIN components) \X (1..2) :
        /\ components[i].id # TheArduino.id
        /\ j \in DOMAIN components[i].connections}

DeclaredName(d) == components[d[1]].connections[d[2]][1]
DeclaredLabel(d) == components[d[1]].connections[d[2]][2]

\* d comes before e in the order of the loops
Earlier(d, e) == d[1] < e[1] \/ (d[1] = e[1] /\ d[2] < e[2])

\* the pairs of pin ids of the circuit's connections
WiredPairs == {<<connections[k].pin1_id, connections[k].pin2_id>> :
                  k \in DOMAIN connections}

\* ------------------------------------------------------------------------
\* C18.  After update_from_data, of the declared connections with the label
\* GND on a pin the component has, the first is wired to the Arduino's GND
\* pin and every later one to its GND2 pin.
\* ------------------------------------------------------------------------
GroundPairs ==
    {d \in DeclaredPairs :
        /\ DeclaredLabel(d) = "GND"
        /\ DeclaredName(d) \in DOMAIN components[d[1]].pins}

C18_LaterGroundsUseGnd2 ==
    (last.op = "update_from_data" /\ ~last.raised) =>
        \A d \in GroundPairs :
            LET pin == components[d[1]].pins[DeclaredName(d)]
                first == \A e \in GroundPairs : e = d \/ Earlier(d, e)
            IN <<pin.id, TheArduino.pins[IF first THEN "GND" ELSE "GND2"].id>>
                  \in WiredPairs

\* ------------------------------------------------------------------------
\* C19.  After update_from_data the connections are exactly those of the
\* declared pairs whose pin the component has and whose label names an
\* Arduino pin: a label of digits d names "D" \o d, the labels GND, 5V, 3.3V
\* and VIN and the names of the Arduino's pins name themselves; every other
\* pair (unknown label, digits with no such D pin, pin the component lacks)
\* gives no connection, and the call does not raise.
\* ------------------------------------------------------------------------
\* the name of the Arduino pin a label names, None when it names none
NamedArduinoPin(label) ==
    LET name == IF IsDigit(label) THEN "D" \o label ELSE label
    IN IF name \in DOMAIN TheArduino.pins THEN name ELSE None

C19_LabelsResolve ==
    last.op = "update_from_data" =>
        /\ ~last.raised
        /\ WiredPairs =
             {<<components[d[1]].pins[DeclaredName(d)].id,
                TheArduino.pins[NamedArduinoPin(DeclaredLabel(d))].id>> :
                d \in {e \in DeclaredPairs :
                         /\ DeclaredName(e) \in DOMAIN components[e[1]].pins
                         /\ NamedArduinoPin(DeclaredLabel(e)) # None}}
        /\ \A t \in {"GND", "5V", "3.3V", "VIN"} : NamedArduinoPin(t) = t

\* a netlist has been loaded whose LED declares a number wired to D13 and a
\* power token wired to the pin of its name, next to a declared pair that
\* gave no connection
C19_Witness ==
    /\ last.op = "update_from_data"
    /\ \E i \in DOMAIN components :
          /\ components[i].type = "led"
          /\ <<components[i].pins["anode"].id, TheArduino.pins["D13"].id>>
                \in WiredPairs
          /\ components[i].connections[1] = <<"anode", "13">>
          /\ components[i].connections[2] = <<"cathode", "VIN">>
          /\ <<components[i].pins["cathode"].id, TheArduino.pins["VIN"].id>>
                \in WiredPairs
    /\ \E d \in DeclaredPairs : DeclaredLabel(d) = "GND"
    /\ Len(connections) = 3

\* ------------------------------------------------------------------------
\* C16.  A generate-from-prompt action either applies the payload the AI
\* returned completely (the circuit is the one update_from_data builds from
\* the whole payload) or leaves circuit.components and circuit.connections
\* as they were, in both cases up to the simulate_step that ends the call
\* when the simulation is active.
\* ------------------------------------------------------------------------
C16_AppliedOrUntouched ==
    [][last'.op = "generate_prompt" =>
          LET r == update_from_data(Cur, last'.data)
              untouched == SimulateIfActive(Cur, simulation_active)
              applied == SimulateIfActive(r.circuit, simulation_active)
          IN \/ /\ components' = untouched.components
                /\ connections' = untouched.connections
             \/ /\ ~r.raised
                /\ ~last'.raised
                /\ components' = applied.components
                /\ connections' = applied.connections
                /\ Len(components') >= Len(last'.data.components)]_vars

\* ------------------------------------------------------------------------
\* C21.  In the propagation passes of simulate_step an UNKNOWN pin that gets
\* a state gets HIGH or LOW, never CONFLICT, and a pin becomes CONFLICT only
\* in the handling of a connection whose two pins held differing states out
\* of HIGH and LOW.
\* ------------------------------------------------------------------------
KnownStates == {PIN_STATE_HIGH, PIN_STATE_LOW}

\* the j-th elementary step of the trace handles a connection of conns
ConflictOnlyFromKnown(c, trace) ==
    \A j \in 1..(PropagationPasses * Len(c.connections)) :
        LET connection == c.connections[((j - 1) % Len(c.connections)) + 1]
            pin1 == get_pin_by_id(c.components, connection.pin1_id)
            pin2 == get_pin_by_id(c.components, connection.pin2_id)
        IN \A loc \in Places(c) :
              LET old == StateOf(trace[j], loc)
                  new == StateOf(trace[j + 1], loc)
              IN /\ (old = PIN_STATE_UNKNOWN /\ new # old) => new \in KnownStates
                 /\ (new = PIN_STATE_CONFLICT /\ old # new) =>
                       /\ pin1 # << >> /\ pin2 # << >>
                       /\ loc \in {pin1, pin2}
                       /\ StateOf(trace[j], pin1) \in KnownStates
                       /\ StateOf(trace[j], pin2) \in KnownStates
                       /\ StateOf(trace[j], pin1) # StateOf(trace[j], pin2)

C21_ConflictNeverCopied ==
    [][last'.op = "simulate_step" =>
          ConflictOnlyFromKnown(Cur, SimulationTrace(Cur))]_vars

\* ------------------------------------------------------------------------
\* C22.  After simulate_step every pin that is not UNKNOWN is a power or
\* ground pin, or is joined to one by a chain of wires, or is a pin of a
\* pressed button whose other pin is one of those; a power pin is never LOW
\* and a ground pin never HIGH.
\* ------------------------------------------------------------------------
\* the pins of the pressed buttons whose other pin is in S
Bridged(c, S) ==
    {loc \in Places(c) :
        LET component == c.components[loc[1]]
        IN /\ component.type = "button"
           /\ GetItem(component.properties, "pressed", FALSE) = TRUE
           /\ \/ loc[2] = "pin1" /\ <<loc[1], "pin2">> \in S
              \/ loc[2] = "pin2" /\ <<loc[1], "pin1">> \in S}

C22_StatesComeFromSources ==
    last.op = "simulate_step" =>
        LET sourced == Joined(Cur, Sources(Cur))
        IN /\ \A loc \in Places(Cur) :
                 StateOf(components, loc) # PIN_STATE_UNKNOWN =>
                     loc \in sourced \cup Bridged(Cur, sourced)
           /\ \A loc \in PowerPlaces(Cur) :
                 StateOf(components, loc) # PIN_STATE_LOW
           /\ \A loc \in GroundPlaces(Cur) :
                 StateOf(components, loc) # PIN_STATE_HIGH

\* a step has given a state to a button pin that no wire joins to a source
\* and to a pin two wires from a source
C22_Witness ==
    /\ last.op = "simulate_step"
    /\ \E loc \in Places(Cur) \ Joined(Cur, Sources(Cur)) :
          StateOf(components, loc) # PIN_STATE_UNKNOWN
    /\ \E loc \in Joined(Cur, Sources(Cur)) \ Within(Cur, Sources(Cur), 1) :
          StateOf(components, loc) # PIN_STATE_UNKNOWN

\* ------------------------------------------------------------------------
\* C23.  After simulate_step, properties["state"] of every component of type
\* led is "on" when the snapshot of the step records HIGH for its anode and
\* LOW for its cathode under the component's id, and "off" otherwise.
\* ------------------------------------------------------------------------
SnapshotOf(i) == simulation_state.components[components[i].id]

C23_LedMatchesSnapshot ==
    last.op = "simulate_step" =>
        \A i \in DOMAIN components :
            components[i].type = "led" =>
                LedStateOf(i) =
                    IF /\ SnapshotOf(i).pin_states["anode"] = PIN_STATE_HIGH
                       /\ SnapshotOf(i).pin_states["cathode"] = PIN_STATE_LOW
                    THEN "on" ELSE "off"


\* ------------------------------------------------------------------------
\* C24: a held button copies the state its pin1 or pin2 has after the five
\* passes onto the other pin when that one is UNKNOWN, once; every other pin
\* ends the step exactly as it would with no button held, and a button that
\* is not held has its pins left as the passes left them.
\* ------------------------------------------------------------------------
\* the circuit with every button released
Released(c) ==
    [c EXCEPT !.components =
        [i \in DOMAIN c.components |->
            IF c.components[i].type = "button"
            THEN [c.components[i] EXCEPT !.properties =
                    SetItem(c.components[i].properties, "pressed", FALSE)]
            ELSE c.components[i]]]

Held(comp) ==
    /\ comp.type = "button"
    /\ GetItem(comp.properties, "pressed", FALSE)
    /\ {"pin1", "pin2"} \subseteq DOMAIN comp.pins

OtherButtonPin(n) == IF n = "pin1" THEN "pin2" ELSE "pin1"

C24_ButtonBridgesOneHop ==
    [][last'.op = "simulate_step" =>
        LET ref == simulate_step(Released(Cur)).components
        IN \A i \in DOMAIN components' :
              \A n \in DOMAIN components'[i].pins :
                 LET now == components'[i].pins[n].state
                     was == ref[i].pins[n].state
                 IN IF /\ Held(components[i])
                       /\ n \in {"pin1", "pin2"}
                       /\ was = PIN_STATE_UNKNOWN
                       /\ ref[i].pins[OtherButtonPin(n)].state
                              # PIN_STATE_UNKNOWN
                    THEN now = ref[i].pins[OtherButtonPin(n)].state
                    ELSE now = was]_vars

\* after a step: the held button fed on pin1 has bridged HIGH to pin2, the
\* LED anode wired to that pin2 is still UNKNOWN, and the released button fed
\* on pin1 has pin2 UNKNOWN
C24_Witness ==
    /\ last.op = "simulate_step"
    /\ \E b, r, l \in DOMAIN components :
          /\ Held(components[b])
          /\ components[b].pins["pin1"].state = PIN_STATE_HIGH
          /\ components[b].pins["pin2"].state = PIN_STATE_HIGH
          /\ components[l].type = "led"
          /\ \E k \in DOMAIN connections :
                /\ connections[k].pin1_id = components[b].pins["pin2"].id
                /\ connections[k].pin2_id = components[l].pins["anode"].id
          /\ components[l].pins["anode"].state = PIN_STATE_UNKNOWN
          /\ components[r].type = "button"
          /\ ~Held(components[r])
          /\ components[r].pins["pin1"].state = PIN_STATE_HIGH
          /\ components[r].pins["pin2"].state = PIN_STATE_UNKNOWN


\* ------------------------------------------------------------------------
\* C25: after simulate_step the snapshot has exactly one entry per component
\* of the circuit, keyed by its id, with its type, its properties and the
\* state of each of its pins at the end of the step, and no other entry.
\* ------------------------------------------------------------------------
C25_SnapshotMatchesCircuit ==
    last.op = "simulate_step" =>
        /\ Cardinality(DOMAIN simulation_state.components) = Len(components)
        /\ DOMAIN simulation_state.components =
               {components[i].id : i \in DOMAIN components}
        /\ \A i \in DOMAIN components :
              SnapshotOf(i) =
                  [type |-> components[i].type,
                   properties |-> components[i].properties,
                   pin_states |-> [n \in DOMAIN components[i].pins |->
                                      components[i].pins[n].state]]


\* ------------------------------------------------------------------------
\* C26: simulate_step completes on a circuit whose list holds Connections
\* with one or both pin ids resolving to no pin; the step ends with every
\* pin in the state it has without those Connections, one of HIGH, LOW,
\* UNKNOWN and CONFLICT.
\* ------------------------------------------------------------------------
Dangling(c, connection) ==
    ~Resolves(c.components, connection.pin1_id)
    \/ ~Resolves(c.components, connection.pin2_id)

\* the circuit with only the Connections whose two pin ids resolve
WithoutDangling(c) ==
    [c EXCEPT !.connections =
        SelectSeq(c.connections, LAMBDA x : ~Dangling(c, x))]

PinStates(comps) ==
    [i \in DOMAIN comps |->
        [n \in DOMAIN comps[i].pins |-> comps[i].pins[n].state]]

C26_DanglingConnectionsAreInert ==
    [][last'.op = "simulate_step" =>
        /\ ~last'.raised
        /\ PinStates(components') =
               PinStates(simulate_step(WithoutDangling(Cur)).components)
        /\ \A i \in DOMAIN components' :
              \A n \in DOMAIN components'[i].pins :
                 components'[i].pins[n].state \in
                     {PIN_STATE_HIGH, PIN_STATE_LOW, PIN_STATE_UNKNOWN,
                      PIN_STATE_CONFLICT}]_vars

\* after a step: the list holds a Connection with one end on the 5V pin and
\* the other on no pin, a Connection with neither end on a pin, and a live
\* wire that carried HIGH from the 5V pin to the LED anode
C26_Witness ==
    /\ last.op = "simulate_step"
    /\ \E k \in DOMAIN connections :
          /\ ~Resolves(components, connections[k].pin1_id)
          /\ Resolves(components, connections[k].pin2_id)
          /\ StateOf(components,
                     get_pin_by_id(components, connections[k].pin2_id))
                 = PIN_STATE_HIGH
    /\ \E k \in DOMAIN connections :
          /\ ~Resolves(components, connections[k].pin1_id)
          /\ ~Resolves(components, connections[k].pin2_id)
    /\ \E i \in DOMAIN components :
          /\ components[i].type = "led"
          /\ components[i].pins["anode"].state = PIN_STATE_HIGH


\* ------------------------------------------------------------------------
\* C27: the "connections" map get_data gives a component has an entry for a
\* pin name exactly when circuit.connections holds a Connection between that
\* pin and a pin of an Arduino in the circuit, and its value is the name of
\* such an Arduino pin.
\* ------------------------------------------------------------------------
\* the names of the Arduino pins that a Connection of the list joins to the
\* pin named p of the component at index i
ArduinoPinsWiredTo(i, p) ==
    {components[j].pins[q].name :
        <<j, q>> \in {<<j, q>> \in Places(Cur) :
            /\ components[j].type = "arduinouno"
            /\ \E k \in DOMAIN connections :
                  {connections[k].pin1_id, connections[k].pin2_id} =
                      {components[i].pins[p].id, components[j].pins[q].id}}}

\* the values get_data records under pin name p for the component at index i
RecordedFor(i, p) ==
    LET entry == get_data(Cur).components[i].connections
    IN {entry[k][2][2] : k \in {k \in DOMAIN entry : entry[k][1] = p}}

C27_GetDataRecordsArduinoWiring ==
    \A i \in DOMAIN components :
        \A p \in DOMAIN components[i].pins :
            IF ArduinoPinsWiredTo(i, p) = {}
            THEN RecordedFor(i, p) = {}
            ELSE /\ RecordedFor(i, p) # {}
                 /\ RecordedFor(i, p) \subseteq ArduinoPinsWiredTo(i, p)


\* ------------------------------------------------------------------------
\* C28: remove_connection of the id of a Connection in the list takes that
\* Connection out of the list and out of connected_to of the pins at its two
\* ends and changes nothing else; with an id of no Connection it changes
\* nothing.
\* ------------------------------------------------------------------------
\* the components with every back-reference to the Connection of that id
\* dropped from the pins whose id is in ends
WithoutBackReference(comps, connection_id, ends) ==
    [i \in DOMAIN comps |->
        [comps[i] EXCEPT !.pins =
            [n \in DOMAIN comps[i].pins |->
                IF comps[i].pins[n].id \in ends
                THEN [comps[i].pins[n] EXCEPT !.connected_to =
                        SelectSeq(@, LAMBDA x : x.id # connection_id)]
                ELSE comps[i].pins[n]]]]

C28_RemoveConnectionIsSymmetric ==
    [][last'.op = "remove_connection" =>
        LET id == last'.args[1]
            hits == {k \in DOMAIN connections : connections[k].id = id}
        IN IF hits = {}
           THEN components' = components /\ connections' = connections
           ELSE LET connection == connections[CHOOSE k \in hits : TRUE]
                IN /\ connections' =
                          SelectSeq(connections, LAMBDA x : x.id # id)
                   /\ components' =
                          WithoutBackReference(components, id,
                              {connection.pin1_id, connection.pin2_id})
                   /\ \A p \in Places(Cur) :
                         connection \notin
                             Range(components'[p[1]].pins[p[2]].connected_to)
       ]_vars

\* after remove_connection took one of two Connections away: the one that is
\* left still has its back-reference on the pins at both its ends
C28_Witness ==
    /\ last.op = "remove_connection"
    /\ last.before[2] = 2
    /\ Len(connections) = 1
    /\ \A pin_id \in {connections[1].pin1_id, connections[1].pin2_id} :
          /\ Resolves(components, pin_id)
          /\ connections[1] \in
                 Range(LET p == get_pin_by_id(components, pin_id)
                       IN components[p[1]].pins[p[2]].connected_to)


\* ------------------------------------------------------------------------
\* C29: simulate_step is a full recompute: a second call straight after it
\* leaves pin states, properties and snapshot as they are, and the step gives
\* the same result from a circuit whose pins all hold CONFLICT and whose
\* snapshot is empty.
\* ------------------------------------------------------------------------
\* the circuit with every pin state overwritten and the snapshot emptied
Scrambled(c) ==
    [c EXCEPT
       !.components =
           [i \in DOMAIN c.components |->
               [c.components[i] EXCEPT !.pins =
                   [n \in DOMAIN c.components[i].pins |->
                       [c.components[i].pins[n] EXCEPT
                           !.state = PIN_STATE_CONFLICT]]]],
       !.simulation_state = Circuit_init.simulation_state]

C29_StepIsFullRecompute ==
    [][last'.op = "simulate_step" =>
        LET after == [Cur EXCEPT !.components = components',
                                 !.simulation_state = simulation_state']
            again == simulate_step(after)
            fresh == simulate_step(Scrambled(Cur))
        IN /\ again.components = components'
           /\ again.simulation_state = simulation_state'
           /\ fresh.components = components'
           /\ fresh.simulation_state = simulation_state'
       ]_vars

\* a step made straight after a step, on a circuit with an LED that is on
C29_Witness ==
    /\ last.op = "simulate_step"
    /\ last.args[1] = "simulate_step"
    /\ last.args[2] # {}
    /\ LitComponents = last.args[2]


\* ------------------------------------------------------------------------
\* C30: load_from_file never raises, and whenever it returns False the
\* components and the connections of the circuit are those it had before
\* the call.
\* ------------------------------------------------------------------------
C30_FailedLoadChangesNothing ==
    [][last'.op = "load_from_file" =>
        /\ ~last'.raised
        /\ last'.ret = FALSE =>
              /\ components' = components
              /\ connections' = connections]_vars

====
